---- MODULE Spec2Model ----
(***************************************************************************)
(* InsForge VS Code extension: the OAuth login / token lifecycle           *)
(* (src/auth/authProvider.ts), the MCP connection probe                    *)
(* (src/utils/mcpVerifier.ts), the install / verify flow                   *)
(* (src/commands/installMcp.ts) and the persisted MCP status map           *)
(* (src/views/projectsViewProvider.ts).                                    *)
(*                                                                         *)
(* The extension host is single-threaded: an async function runs without   *)
(* interruption up to its next await.  Every action below is one such      *)
(* uninterrupted segment (a call up to its first await, or a continuation  *)
(* from one await to the next), or one event handler.                      *)
(***************************************************************************)
EXTENDS Bags, FiniteSets, Integers, Sequences, TLC

VARIABLES
  mcpStatus,      \* globalState['insforge.mcpStatus']: projectId -> entry
  realConnected,  \* globalState['insforge.mcpRealConnected']
  statusOps       \* bag of suspended mark*/clearAllState calls (at an await)

statusVars == <<mcpStatus, realConnected, statusOps>>

VARIABLES
  accessToken,    \* secrets['insforge.authToken'] (optional)
  refreshToken,   \* secrets['insforge.refreshToken'] (optional)
  tokenExpiry,    \* globalState['insforge.tokenExpiry'] (optional, ms)
  userData,       \* globalState['insforge.userData'] (optional)
  isLoggedIn,     \* the 'insforge.isLoggedIn' context key
  authEvents,     \* the values fired on onDidChangeAuth, in order
  now             \* Date.now(), ms

storeVars == <<accessToken, refreshToken, tokenExpiry, userData, isLoggedIn, authEvents, now>>

VARIABLES
  loginPc,        \* login(): "idle", "awaiting" (the callback promise), "returned"
  loginResult,    \* what login() returned (optional BOOLEAN)
  promise,        \* startCallbackServer's promise: "none", "pending", "null", "user", "rejected"
  server,         \* the http.Server: "none", "created", "listening", "closed"
  closeCalls,     \* calls of server.close() so far
  browserOpened,  \* vscode.env.openExternal(authUrl) has been called
  timer,          \* the 5-minute setTimeout: "none", "armed", "fired"
  handlers,       \* bag of /callback request handlers suspended at an await
  exchangeCalls,  \* calls of exchangeCodeForTokens so far
  callbacksSeen,  \* requests the listener has handled so far
  mismatchSeen    \* history: a /callback request with a wrong state was handled

loginVars == <<loginPc, loginResult, promise, server, closeCalls, browserOpened,
               timer, handlers, exchangeCalls, callbacksSeen, mismatchSeen>>

VARIABLES
  probePc,        \* testMcpConnection: "idle", "running" (spawned), "failed" (spawn threw)
  process,        \* mcpProcess: "none", "spawned", "killed" (mcpProcess.killed is set)
  exited,         \* the process's exit event has been delivered
  errored,        \* the process's error event has been delivered
  probeTimer,     \* the timeoutMs timer: "none", "armed", "cleared", "fired"
  toolsTimer,     \* the 500 ms timer of the tools/list request: "none", "armed", "fired"
  stdinWrites,    \* the requests written to the process's stdin, in order
  buffer,         \* the stdout buffer, a sequence of tokens
  resolved,       \* the single-resolve flag
  probeResult,    \* what the promise resolved with (optional)
  resolveCalls,   \* calls of resolve() so far
  chunksSeen      \* stdout and stderr chunks delivered so far

probeVars == <<probePc, process, exited, errored, probeTimer, toolsTimer, stdinWrites, buffer,
               resolved, probeResult, resolveCalls, chunksSeen>>

VARIABLES
  runs            \* the installMcp / retryVerification runs: run id -> run

installVars == <<runs>>

\* Calls of isAuthenticated and authenticatedFetch, one record per caller:
\* where the call is suspended and what it has done so far.
VARIABLES calls
authVars == <<calls>>

\* What each attempt of a verifyFromConfig call under observation met: the
\* config reading and, when a probe was made, its result.
VARIABLES attemptLog
verifyVars == <<attemptLog>>

VARIABLES
  currentOrg,     \* AuthProvider.currentOrg (optional)
  currentProject, \* AuthProvider.currentProject (optional)
  logoutPc,       \* logout(): "idle", the await it is suspended at, "done"
  selection       \* _handleSelectProject: its pc ("idle", "getOrgs", "getProjects", "done") and projectId

sessionVars == <<currentOrg, currentProject, logoutPc, selection>>

VARIABLES
  listeners,      \* the McpSocketListener objects created so far, in order of creation
  activeListeners \* the registry: projectId -> listener (optional index into listeners)

socketVars == <<listeners, activeListeners>>

vars == <<statusVars, storeVars, loginVars, probeVars, installVars, authVars, verifyVars, sessionVars, socketVars>>

(***************************************************************************)
(* Values                                                                  *)
(***************************************************************************)
\* An optional value: None is JavaScript's undefined, Some(x) a present x.
None == {}
Some(x) == {x}

Projects == {"P", "Q"}

\* A new AuthProvider with no logout and no project selection under way.
SessionIdle ==
  /\ currentOrg = None /\ currentProject = None
  /\ logoutPc = "idle" /\ selection = [pc |-> "idle", projectId |-> None]

\* No listener has been started.
SocketIdle ==
  /\ listeners = <<>>
  /\ activeListeners = [p \in Projects |-> None]

ToolLists == {<<"fetch-docs">>, <<"fetch-docs", "create-table">>}
Errors == {<<"E1">>}

\* The most suspended status operations the model follows at once.
MaxStatusOps == 2

(***************************************************************************)
(* Status Reconciler: src/views/projectsViewProvider.ts                    *)
(***************************************************************************)
\* A project with no entry in the map.
Absent == [status |-> "absent", tools |-> None, error |-> None]

\* getMcpStatus: the entry's status, 'none' when there is no entry.
getMcpStatus(p) ==
  IF mcpStatus[p].status = "absent" THEN "none" ELSE mcpStatus[p].status

\* getMcpTools: the entry's tool list, undefined when there is none.
getMcpTools(p) == mcpStatus[p].tools

\* getInstalledMcpProject, as the set of entries with status verified.
VerifiedProjects == {p \in Projects : mcpStatus[p].status = "verified"}

\* updateMcpStatus writing a map that holds its own entry alone.
updateMcpStatusAlone(m, p, status, tools, error) ==
  [q \in Projects |->
     IF q = p THEN [status |-> status, tools |-> tools, error |-> error] ELSE Absent]

\* updateMcpStatus up to its await: get, overwrite the entry, update.
updateMcpStatus(m, p, status, tools, error) ==
  [m EXCEPT ![p] = [status |-> status, tools |-> tools, error |-> error]]

\* clearOtherVerifiedStatuses deleting the other verified entries.
clearOtherVerifiedDeleting(m, p) ==
  [q \in Projects |-> IF q # p /\ m[q].status = "verified" THEN Absent ELSE m[q]]

\* clearOtherVerifiedStatuses demoting without dropping the tools.
clearOtherVerifiedKeepTools(m, p) ==
  [q \in Projects |->
     IF q # p /\ m[q].status = "verified" THEN [m[q] EXCEPT !.status = "none"] ELSE m[q]]

\* clearOtherVerifiedStatuses up to its await: every other verified entry
\* becomes {...entry, status: 'none', tools: undefined}.
clearOtherVerifiedStatuses(m, p) ==
  [q \in Projects |->
     IF q # p /\ m[q].status = "verified"
       THEN [m[q] EXCEPT !.status = "none", !.tools = None]
       ELSE m[q]]

StatusOpsInFlight == BagCardinality(statusOps)

Suspend(op) == statusOps' = statusOps (+) SetToBag({op})
Resume(op, next) == statusOps' = (statusOps (-) SetToBag({op})) (+) SetToBag(next)

\* markMcpVerifying(p) up to the await in updateMcpStatus.
markMcpVerifying(p) ==
  /\ mcpStatus' = updateMcpStatus(mcpStatus, p, "verifying", None, None)
  /\ Suspend([op |-> "markMcpVerifying", pid |-> p, tools |-> None, pc |-> "refresh"])
  /\ UNCHANGED realConnected

\* markMcpFailed(p, error) up to the await in updateMcpStatus.
markMcpFailed(p, e) ==
  /\ mcpStatus' = updateMcpStatus(mcpStatus, p, "failed", None, Some(e))
  /\ Suspend([op |-> "markMcpFailed", pid |-> p, tools |-> None, pc |-> "refresh"])
  /\ UNCHANGED realConnected

\* markMcpVerified(p, tools) up to its first await: clearOtherVerifiedStatuses
\* has read, demoted and written the map; updateMcpStatus has not yet run.
markMcpVerified(p, t) ==
  /\ mcpStatus' = clearOtherVerifiedStatuses(mcpStatus, p)
  /\ Suspend([op |-> "markMcpVerified", pid |-> p, tools |-> Some(t), pc |-> "update"])
  /\ UNCHANGED realConnected

\* markMcpVerified resumed after `await clearOtherVerifiedStatuses`:
\* updateMcpStatus(p, 'verified', tools) up to its await.
markMcpVerifiedUpdate(o) ==
  /\ o.op = "markMcpVerified" /\ o.pc = "update"
  /\ mcpStatus' = updateMcpStatus(mcpStatus, o.pid, "verified", o.tools, None)
  /\ Resume(o, {[o EXCEPT !.pc = "refresh"]})
  /\ UNCHANGED realConnected

\* clearAllState up to its first await: the status map is removed.
clearAllState ==
  /\ mcpStatus' = [p \in Projects |-> Absent]
  /\ Suspend([op |-> "clearAllState", pid |-> "", tools |-> None, pc |-> "clearReal"])
  /\ UNCHANGED realConnected

\* clearAllState resumed: the real-connected flag is removed.
clearAllStateReal(o) ==
  /\ o.op = "clearAllState" /\ o.pc = "clearReal"
  /\ realConnected' = FALSE
  /\ Resume(o, {[o EXCEPT !.pc = "refresh"]})
  /\ UNCHANGED mcpStatus

\* markMcpRealConnected up to its await: the flag is set.
markMcpRealConnected ==
  /\ realConnected' = TRUE
  /\ Suspend([op |-> "markMcpRealConnected", pid |-> "", tools |-> None, pc |-> "refresh"])
  /\ UNCHANGED mcpStatus

\* The last segment of every status operation: this.refresh(), then return.
refresh(o) ==
  /\ o.pc = "refresh"
  /\ Resume(o, {})
  /\ UNCHANGED <<mcpStatus, realConnected>>

\* A caller may start a status operation while fewer than MaxStatusOps are
\* suspended.
StatusCall ==
  StatusOpsInFlight < MaxStatusOps /\ UNCHANGED <<storeVars, loginVars, probeVars, installVars, authVars, verifyVars, sessionVars, socketVars>>

StatusStep == UNCHANGED <<storeVars, loginVars, probeVars, installVars, authVars, verifyVars, sessionVars, socketVars>>

StatusInit ==
  /\ mcpStatus = [p \in Projects |-> Absent]
  /\ realConnected = FALSE
  /\ statusOps = EmptyBag

(***************************************************************************)
(* Token endpoint and profile endpoint replies                             *)
(***************************************************************************)
\* expires_in of a token response, seconds, when present.
ExpiresInValues == {60}

\* What `await fetch(token endpoint)` followed by `response.json()` can give:
\* a transport error (throw), a non-OK response, or a JSON body that holds
\* either an `error` or the tokens.
TokenReplies(newAccess, newRefresh) ==
  {[kind |-> k, error |-> None, access_token |-> newAccess, refresh_token |-> None,
    expires_in |-> None] : k \in {"throw", "not_ok"}}
  \cup {[kind |-> "json", error |-> Some("invalid_grant"), access_token |-> newAccess,
         refresh_token |-> None, expires_in |-> None]}
  \cup {[kind |-> "json", error |-> None, access_token |-> newAccess,
         refresh_token |-> r, expires_in |-> x] :
          r \in {None, Some(newRefresh)}, x \in {None} \cup {Some(v) : v \in ExpiresInValues}}

NoReply == [kind |-> "none", error |-> None, access_token |-> "", refresh_token |-> None,
            expires_in |-> None]

\* The value of an optional that is present.
The(o) == CHOOSE x \in o : TRUE

\* `o || d` for an optional number: d when o is undefined or 0.
OrElse(o, d) == IF o = None \/ o = Some(0) THEN d ELSE The(o)

(***************************************************************************)
(* Socket listener: src/utils/mcpSocketListener.ts                         *)
(***************************************************************************)
\* The most listeners the model creates.
MaxListeners == 3

\* new McpSocketListener(projectId, ...): no socket, no event received.
NewListener(p) ==
  [projectId |-> p, socket |-> "null", hasReceivedEvent |-> FALSE, onMcpEventCalls |-> 0]

\* listener.disconnect(): socket.disconnect() and socket = null.
disconnect(ls, l) == [ls EXCEPT ![l].socket = "null"]

\* stopMcpSocketListener(p) on the listeners ls and the registry reg: the
\* registered listener, if any, is disconnected and deleted.
stopped(ls, reg, p) ==
  IF reg[p] = None THEN [ls |-> ls, reg |-> reg]
  ELSE [ls |-> disconnect(ls, The(reg[p])), reg |-> [reg EXCEPT ![p] = None]]

SocketFrame ==
  UNCHANGED <<storeVars, loginVars, probeVars, installVars, authVars, verifyVars, sessionVars>>

\* startMcpSocketListener without stopping the registered listener first.
startMcpSocketListenerNoStop(p, ioThrows) ==
  /\ Len(listeners) < MaxListeners
  /\ listeners' = Append(listeners,
                     [NewListener(p) EXCEPT !.socket = IF ioThrows THEN "null" ELSE "connecting"])
  /\ activeListeners' = [activeListeners EXCEPT ![p] = Some(Len(listeners) + 1)]
  /\ UNCHANGED statusVars /\ SocketFrame

\* startMcpSocketListener(p, ...): the listener registered for p is stopped,
\* a new one is registered and connect() creates its socket (or io() throws
\* and the catch reports onError, leaving it without one).
startMcpSocketListener(p, ioThrows) ==
  /\ Len(listeners) < MaxListeners
  /\ LET s == stopped(listeners, activeListeners, p) IN
       /\ listeners' = Append(s.ls,
                          [NewListener(p) EXCEPT !.socket = IF ioThrows THEN "null" ELSE "connecting"])
       /\ activeListeners' = [s.reg EXCEPT ![p] = Some(Len(listeners) + 1)]
  /\ UNCHANGED statusVars /\ SocketFrame

\* stopMcpSocketListener(p), called from outside the listener.
stopMcpSocketListener(p) ==
  /\ activeListeners[p] # None
  /\ LET s == stopped(listeners, activeListeners, p) IN
       listeners' = s.ls /\ activeListeners' = s.reg
  /\ UNCHANGED statusVars /\ SocketFrame

\* stopAllMcpSocketListeners: every registered listener is disconnected and
\* the registry cleared.
stopAllMcpSocketListeners ==
  /\ \E p \in Projects : activeListeners[p] # None
  /\ listeners' = [l \in DOMAIN listeners |->
                     IF \E p \in Projects : activeListeners[p] = Some(l)
                       THEN [listeners[l] EXCEPT !.socket = "null"] ELSE listeners[l]]
  /\ activeListeners' = [p \in Projects |-> None]
  /\ UNCHANGED statusVars /\ SocketFrame

\* The socket's connect event (first connection or reconnection) and its
\* disconnect event after a transport loss (reconnection is on): the
\* handlers only call onConnected / onDisconnected.
socketConnect(l) ==
  /\ listeners[l].socket = "connecting"
  /\ listeners' = [listeners EXCEPT ![l].socket = "connected"]
  /\ UNCHANGED activeListeners /\ UNCHANGED statusVars /\ SocketFrame

socketDisconnect(l) ==
  /\ listeners[l].socket = "connected"
  /\ listeners' = [listeners EXCEPT ![l].socket = "connecting"]
  /\ UNCHANGED activeListeners /\ UNCHANGED statusVars /\ SocketFrame

\* The mcp:connected handler of listener l, whose socket is connected: on
\* the first event the flag is set, onMcpEvent is called (the views'
\* callback calls markMcpRealConnected) and stopMcpSocketListener is called
\* with the listener's project id; later events are ignored.
mcpConnected(l) ==
  /\ listeners[l].socket = "connected"
  /\ IF ~listeners[l].hasReceivedEvent
       THEN /\ LET ls == [listeners EXCEPT ![l].hasReceivedEvent = TRUE,
                                            ![l].onMcpEventCalls = @ + 1]
                    s == stopped(ls, activeListeners, listeners[l].projectId)
                IN listeners' = s.ls /\ activeListeners' = s.reg
            /\ markMcpRealConnected
       ELSE UNCHANGED <<socketVars, statusVars>>
  /\ SocketFrame

SocketNext ==
  \/ \E p \in Projects, ioThrows \in BOOLEAN : startMcpSocketListener(p, ioThrows)
  \/ \E p \in Projects : stopMcpSocketListener(p)
  \/ stopAllMcpSocketListeners
  \/ \E l \in DOMAIN listeners : socketConnect(l)
  \/ \E l \in DOMAIN listeners : socketDisconnect(l)
  \/ \E l \in DOMAIN listeners : mcpConnected(l)
  \/ \E o \in BagToSet(statusOps) : refresh(o) /\ StatusStep

(***************************************************************************)
(* OAuth Flow Controller: src/auth/authProvider.ts, login                  *)
(***************************************************************************)
\* The most /callback requests the model delivers to one listener.
MaxCallbacks == 2

\* generateState(): the state of the current login attempt.
GeneratedState == "S1"

DefaultExpiresIn == 3600

\* The query of a request to the loopback listener.
Requests ==
  [path : {"/callback", "/other"},
   error : {None, Some("access_denied")},
   state : {None, Some(GeneratedState), Some("forged")},
   code : {None, Some(""), Some("c1")}]

\* server.close(): stops a listening server; the call is counted.
serverClose ==
  /\ closeCalls' = closeCalls + 1
  /\ server' = IF server = "listening" THEN "closed" ELSE server

\* resolve(v) / reject(e) of the callback promise: only the first one settles it.
settle(v) == promise' = IF promise = "pending" THEN v ELSE promise

\* login() up to `await this.startCallbackServer(...)`: the promise executor
\* creates the server, calls listen, arms the 5-minute timer and registers
\* the error handler.
login ==
  /\ loginPc = "idle"
  /\ loginPc' = "awaiting"
  /\ promise' = "pending"
  /\ server' = "created"
  /\ timer' = "armed"
  /\ UNCHANGED <<loginResult, closeCalls, browserOpened, handlers, exchangeCalls,
                 callbacksSeen, mismatchSeen>>
  /\ UNCHANGED <<storeVars, statusVars, probeVars, installVars, authVars, verifyVars, sessionVars, socketVars>>

\* The listen callback without the openExternal call.
listeningWithoutBrowser ==
  /\ server = "created"
  /\ server' = "listening"
  /\ UNCHANGED <<loginPc, loginResult, promise, closeCalls, browserOpened, timer,
                 handlers, exchangeCalls, callbacksSeen, mismatchSeen>>
  /\ UNCHANGED <<storeVars, statusVars, probeVars, installVars, authVars, verifyVars, sessionVars, socketVars>>

\* The listen callback: the server is listening and the authorization URL
\* is opened in the browser.
listening ==
  /\ server = "created"
  /\ server' = "listening"
  /\ browserOpened' = TRUE
  /\ UNCHANGED <<loginPc, loginResult, promise, closeCalls, timer, handlers,
                 exchangeCalls, callbacksSeen, mismatchSeen>>
  /\ UNCHANGED <<storeVars, statusVars, probeVars, installVars, authVars, verifyVars, sessionVars, socketVars>>

\* server.on('error'): listen failed (EADDRINUSE or other); reject, no close.
serverError ==
  /\ server = "created"
  /\ server' = "none"
  /\ settle("rejected")
  /\ UNCHANGED <<loginPc, loginResult, closeCalls, browserOpened, timer, handlers,
                 exchangeCalls, callbacksSeen, mismatchSeen>>
  /\ UNCHANGED <<storeVars, statusVars, probeVars, installVars, authVars, verifyVars, sessionVars, socketVars>>

\* The state check of the request handler.
stateMismatch(req) == req.state # Some(GeneratedState)

\* `!code`: no code parameter, or an empty one.
noCode(req) == req.code = None \/ req.code = Some("")

\* The request handler with the state check left out.
handleRequestNoStateCheck(req) ==
  /\ server = "listening"
  /\ callbacksSeen < MaxCallbacks
  /\ callbacksSeen' = callbacksSeen + 1
  /\ mismatchSeen' = (mismatchSeen \/ (req.path = "/callback" /\ stateMismatch(req)))
  /\ IF req.path # "/callback"
       THEN UNCHANGED <<promise, server, closeCalls, handlers, exchangeCalls>>
     ELSE IF req.error # None \/ noCode(req)
       THEN /\ serverClose /\ settle("null")
            /\ UNCHANGED <<handlers, exchangeCalls>>
     ELSE /\ exchangeCalls' = exchangeCalls + 1
          /\ handlers' = handlers (+) SetToBag({[pc |-> "exchange", reply |-> NoReply]})
          /\ UNCHANGED <<promise, server, closeCalls>>
  /\ UNCHANGED <<loginPc, loginResult, browserOpened, timer>>
  /\ UNCHANGED <<storeVars, statusVars, probeVars, installVars, authVars, verifyVars, sessionVars, socketVars>>

\* The request handler up to its first await (or its return): 404 for another
\* path; close and resolve(null) for a provider error, a wrong state or a
\* missing code; otherwise exchangeCodeForTokens is called and awaited.
handleRequest(req) ==
  /\ server = "listening"
  /\ callbacksSeen < MaxCallbacks
  /\ callbacksSeen' = callbacksSeen + 1
  /\ mismatchSeen' = (mismatchSeen \/ (req.path = "/callback" /\ stateMismatch(req)))
  /\ IF req.path # "/callback"
       THEN UNCHANGED <<promise, server, closeCalls, handlers, exchangeCalls>>
     ELSE IF req.error # None \/ stateMismatch(req) \/ noCode(req)
       THEN /\ serverClose /\ settle("null")
            /\ UNCHANGED <<handlers, exchangeCalls>>
     ELSE /\ exchangeCalls' = exchangeCalls + 1
          /\ handlers' = handlers (+) SetToBag({[pc |-> "exchange", reply |-> NoReply]})
          /\ UNCHANGED <<promise, server, closeCalls>>
  /\ UNCHANGED <<loginPc, loginResult, browserOpened, timer>>
  /\ UNCHANGED <<storeVars, statusVars, probeVars, installVars, authVars, verifyVars, sessionVars, socketVars>>

moveHandler(h, next) == handlers' = (handlers (-) SetToBag({h})) (+) SetToBag(next)

\* exchangeCodeForTokens with `if (tokens.error) throw` left out: a JSON body
\* that reports an error is treated as a token set.
exchangeCodeForTokensNoErrorCheck(h, reply) ==
  /\ h.pc = "exchange"
  /\ IF reply.kind # "json"
       THEN /\ serverClose /\ settle("rejected")
            /\ moveHandler(h, {})
            /\ UNCHANGED accessToken
       ELSE /\ accessToken' = Some(reply.access_token)
            /\ moveHandler(h, {[pc |-> "storeAccess", reply |-> reply]})
            /\ UNCHANGED <<promise, server, closeCalls>>
  /\ UNCHANGED <<loginPc, loginResult, browserOpened, timer, exchangeCalls,
                 callbacksSeen, mismatchSeen>>
  /\ UNCHANGED <<refreshToken, tokenExpiry, userData, isLoggedIn, authEvents, now>>
  /\ UNCHANGED <<statusVars, probeVars, installVars, authVars, verifyVars, sessionVars, socketVars>>

\* exchangeCodeForTokens returns or throws; on tokens, secrets.store(access).
exchangeCodeForTokens(h, reply) ==
  /\ h.pc = "exchange"
  /\ IF reply.kind # "json" \/ reply.error # None
       THEN /\ serverClose /\ settle("rejected")
            /\ moveHandler(h, {})
            /\ UNCHANGED accessToken
       ELSE /\ accessToken' = Some(reply.access_token)
            /\ moveHandler(h, {[pc |-> "storeAccess", reply |-> reply]})
            /\ UNCHANGED <<promise, server, closeCalls>>
  /\ UNCHANGED <<loginPc, loginResult, browserOpened, timer, exchangeCalls,
                 callbacksSeen, mismatchSeen>>
  /\ UNCHANGED <<refreshToken, tokenExpiry, userData, isLoggedIn, authEvents, now>>
  /\ UNCHANGED <<statusVars, probeVars, installVars, authVars, verifyVars, sessionVars, socketVars>>

\* The expiry with expires_in taken as milliseconds.
loginExpiryUnscaled(reply) == now + OrElse(reply.expires_in, DefaultExpiresIn)

\* The expiry the success path stores: now + (expires_in || 3600) * 1000.
loginExpiry(reply) == now + OrElse(reply.expires_in, DefaultExpiresIn) * 1000

\* After the access token is stored: the refresh token if the reply has one,
\* else straight on to the expiry.
storeRefreshToken(h) ==
  /\ h.pc = "storeAccess"
  /\ IF h.reply.refresh_token # None
       THEN /\ refreshToken' = h.reply.refresh_token
            /\ moveHandler(h, {[h EXCEPT !.pc = "storeRefresh"]})
            /\ UNCHANGED tokenExpiry
       ELSE /\ tokenExpiry' = Some(loginExpiry(h.reply))
            /\ moveHandler(h, {[h EXCEPT !.pc = "storeExpiry"]})
            /\ UNCHANGED refreshToken
  /\ UNCHANGED <<accessToken, userData, isLoggedIn, authEvents, now>>
  /\ UNCHANGED <<loginPc, loginResult, promise, server, closeCalls, browserOpened,
                 timer, exchangeCalls, callbacksSeen, mismatchSeen>>
  /\ UNCHANGED <<statusVars, probeVars, installVars, authVars, verifyVars, sessionVars, socketVars>>

\* After the refresh token is stored: the expiry.
storeExpiry(h) ==
  /\ h.pc = "storeRefresh"
  /\ tokenExpiry' = Some(loginExpiry(h.reply))
  /\ moveHandler(h, {[h EXCEPT !.pc = "storeExpiry"]})
  /\ UNCHANGED <<accessToken, refreshToken, userData, isLoggedIn, authEvents, now>>
  /\ UNCHANGED <<loginPc, loginResult, promise, server, closeCalls, browserOpened,
                 timer, exchangeCalls, callbacksSeen, mismatchSeen>>
  /\ UNCHANGED <<statusVars, probeVars, installVars, authVars, verifyVars, sessionVars, socketVars>>

\* After the expiry is stored: fetchUserData is called and awaited.
fetchUserData(h) ==
  /\ h.pc = "storeExpiry"
  /\ moveHandler(h, {[h EXCEPT !.pc = "fetchUser"]})
  /\ UNCHANGED <<loginPc, loginResult, promise, server, closeCalls, browserOpened,
                 timer, exchangeCalls, callbacksSeen, mismatchSeen>>
  /\ UNCHANGED <<storeVars, statusVars, probeVars, installVars, authVars, verifyVars, sessionVars, socketVars>>

\* fetchUserData returns the profile (ok) or throws.
storeUserData(h, ok) ==
  /\ h.pc = "fetchUser"
  /\ IF ok
       THEN /\ userData' = Some("user")
            /\ moveHandler(h, {[h EXCEPT !.pc = "storeUser"]})
            /\ UNCHANGED <<promise, server, closeCalls>>
       ELSE /\ serverClose /\ settle("rejected")
            /\ moveHandler(h, {})
            /\ UNCHANGED userData
  /\ UNCHANGED <<accessToken, refreshToken, tokenExpiry, isLoggedIn, authEvents, now>>
  /\ UNCHANGED <<loginPc, loginResult, browserOpened, timer, exchangeCalls,
                 callbacksSeen, mismatchSeen>>
  /\ UNCHANGED <<statusVars, probeVars, installVars, authVars, verifyVars, sessionVars, socketVars>>

\* After the profile is stored: setContext, fire(true), close, resolve(userData).
finishCallback(h) ==
  /\ h.pc = "storeUser"
  /\ isLoggedIn' = TRUE
  /\ authEvents' = Append(authEvents, TRUE)
  /\ serverClose /\ settle("user")
  /\ moveHandler(h, {})
  /\ UNCHANGED <<accessToken, refreshToken, tokenExpiry, userData, now>>
  /\ UNCHANGED <<loginPc, loginResult, browserOpened, timer, exchangeCalls,
                 callbacksSeen, mismatchSeen>>
  /\ UNCHANGED <<statusVars, probeVars, installVars, authVars, verifyVars, sessionVars, socketVars>>

\* The 5-minute timer fires (it is never cleared): close, resolve(null).
loginTimeout ==
  /\ timer = "armed"
  /\ server # "created"
  /\ timer' = "fired"
  /\ serverClose /\ settle("null")
  /\ UNCHANGED <<loginPc, loginResult, browserOpened, handlers, exchangeCalls,
                 callbacksSeen, mismatchSeen>>
  /\ UNCHANGED <<storeVars, statusVars, probeVars, installVars, authVars, verifyVars, sessionVars, socketVars>>

\* login() resumed when the promise has settled: true for a profile, false
\* for null and (through the catch) for a rejection.
loginReturn ==
  /\ loginPc = "awaiting"
  /\ promise \in {"null", "user", "rejected"}
  /\ loginPc' = "returned"
  /\ loginResult' = Some(promise = "user")
  /\ UNCHANGED <<promise, server, closeCalls, browserOpened, timer, handlers,
                 exchangeCalls, callbacksSeen, mismatchSeen>>
  /\ UNCHANGED <<storeVars, statusVars, probeVars, installVars, authVars, verifyVars, sessionVars, socketVars>>

(***************************************************************************)
(* Connection Verifier: src/utils/mcpVerifier.ts, testMcpConnection        *)
(***************************************************************************)
\* The most stdout and stderr chunks the model delivers to one probe.
MaxChunks == 3

\* Stdout arrives in chunks of tokens: "\n" ends a line; "T" is the text of
\* a tools/list response, "ta" and "tb" the two halves of that text, "X" an
\* error envelope with a message, "X0" one without, "I" the initialize
\* response (a result without tools), and "G" text that is not JSON.
StdoutChunks ==
  {<<"T", "\n">>, <<"ta">>, <<"tb", "\n">>, <<"X", "\n">>, <<"X0", "\n">>,
   <<"I", "\n">>, <<"G", "\n">>, <<"I", "\n", "T", "\n">>}

\* buffer.split('\n').filter(l => l.trim()): the non-empty lines, in order,
\* the unterminated last one included.
RECURSIVE splitLines(_, _)
splitLines(buf, cur) ==
  IF buf = <<>> THEN (IF cur = <<>> THEN <<>> ELSE <<cur>>)
  ELSE IF Head(buf) = "\n"
    THEN (IF cur = <<>> THEN <<>> ELSE <<cur>>) \o splitLines(Tail(buf), <<>>)
    ELSE splitLines(Tail(buf), Append(cur, Head(buf)))

\* The checks with Array.isArray(result.tools) left out: any result counts
\* as a tools response.
parseLineAnyResult(line) ==
  IF line = <<"T">> \/ line = <<"ta", "tb">>
    THEN [kind |-> "tools", tools |-> <<"fetch-docs", "create-table">>, message |-> None]
  ELSE IF line = <<"I">>
    THEN [kind |-> "tools", tools |-> <<>>, message |-> None]
  ELSE IF line = <<"X">>
    THEN [kind |-> "error", tools |-> <<>>, message |-> Some("Invalid API key")]
  ELSE IF line = <<"X0">>
    THEN [kind |-> "error", tools |-> <<>>, message |-> None]
  ELSE [kind |-> "invalid", tools |-> <<>>, message |-> None]

\* JSON.parse(line) and the two checks on the response.
parseLine(line) ==
  IF line = <<"T">> \/ line = <<"ta", "tb">>
    THEN [kind |-> "tools", tools |-> <<"fetch-docs", "create-table">>, message |-> None]
  ELSE IF line = <<"X">>
    THEN [kind |-> "error", tools |-> <<>>, message |-> Some("Invalid API key")]
  ELSE IF line = <<"X0">>
    THEN [kind |-> "error", tools |-> <<>>, message |-> None]
  ELSE IF line = <<"I">>
    THEN [kind |-> "other", tools |-> <<>>, message |-> None]
  ELSE [kind |-> "invalid", tools |-> <<>>, message |-> None]

\* The first line of the buffer that is a tools response or an error
\* envelope: the for loop acts on it and returns.
RECURSIVE firstResponse(_)
firstResponse(lines) ==
  IF lines = <<>> THEN [kind |-> "none", tools |-> <<>>, message |-> None]
  ELSE IF parseLine(Head(lines)).kind \in {"tools", "error"} THEN parseLine(Head(lines))
  ELSE firstResponse(Tail(lines))

\* Stderr text, as characters.
StderrTexts ==
  {<<"E", "R", "R", "O", "R">>, <<" ", "f", "a", "i", "l", "e", "d">>,
   <<"w", "a", "r", "n">>}

\* toLowerCase, on the characters that occur.
toLowerCase(text) ==
  [i \in 1..Len(text) |->
     CASE text[i] = "E" -> "e" [] text[i] = "R" -> "r" [] text[i] = "O" -> "o"
       [] OTHER -> text[i]]

includes(text, sub) ==
  \E i \in 1..(Len(text) - Len(sub) + 1) : SubSeq(text, i, i + Len(sub) - 1) = sub

\* The test without toLowerCase.
hasErrorIndicatorCaseSensitive(text) ==
  \/ includes(text, <<"e", "r", "r", "o", "r">>)
  \/ includes(text, <<"f", "a", "i", "l", "e", "d">>)

\* The stderr handler's test for an error indicator.
hasErrorIndicator(text) ==
  \/ includes(toLowerCase(text), <<"e", "r", "r", "o", "r">>)
  \/ includes(toLowerCase(text), <<"f", "a", "i", "l", "e", "d">>)

RECURSIVE trim(_)
trim(text) ==
  IF text # <<>> /\ Head(text) = " " THEN trim(Tail(text))
  ELSE IF text # <<>> /\ text[Len(text)] = " " THEN trim(SubSeq(text, 1, Len(text) - 1))
  ELSE text

Failure(e) == [success |-> FALSE, tools |-> None, error |-> Some(e)]
Success(t) == [success |-> TRUE, tools |-> Some(t), error |-> None]

\* cleanup(): kill the process unless there is none or it is already killed.
cleanup == process' = IF process = "spawned" /\ ~exited THEN "killed" ELSE process

\* resolve(v): the promise takes the first value only; the call is counted.
resolve(v) ==
  /\ resolveCalls' = resolveCalls + 1
  /\ probeResult' = IF probeResult = None THEN Some(v) ELSE probeResult

\* The guarded body shared by the resolving handlers:
\* if (!resolved) { resolved = true; clearTimeout(timeout); cleanup(); resolve(v) }
resolveOnce(v) ==
  IF ~resolved
    THEN /\ resolved' = TRUE
         /\ probeTimer' = IF probeTimer = "armed" THEN "cleared" ELSE probeTimer
         /\ cleanup
         /\ resolve(v)
    ELSE UNCHANGED <<resolved, probeTimer, process, probeResult, resolveCalls>>

\* testMcpConnection up to the end of the executor: the timeout is armed,
\* the process is spawned, the handlers are registered, initialize is
\* written and the tools/list timer is armed; or spawn throws and the catch
\* resolves with the failure.
testMcpConnection(spawnThrows) ==
  /\ probePc = "idle"
  /\ IF spawnThrows
       THEN /\ probePc' = "failed"
            /\ resolved' = TRUE
            /\ probeTimer' = "cleared"
            /\ resolve(Failure(<<"spawn failed">>))
            /\ UNCHANGED <<process, toolsTimer, stdinWrites>>
       ELSE /\ probePc' = "running"
            /\ process' = "spawned"
            /\ probeTimer' = "armed"
            /\ toolsTimer' = "armed"
            /\ stdinWrites' = <<"initialize">>
            /\ UNCHANGED <<resolved, probeResult, resolveCalls>>
  /\ UNCHANGED <<exited, errored, buffer, chunksSeen>>
  /\ UNCHANGED <<statusVars, storeVars, loginVars, installVars, authVars, verifyVars, sessionVars, socketVars>>

\* The 500 ms timer: tools/list is written unless resolved or killed.
sendToolsRequest ==
  /\ toolsTimer = "armed"
  /\ toolsTimer' = "fired"
  /\ stdinWrites' = IF ~resolved /\ process # "killed"
                      THEN Append(stdinWrites, "tools/list") ELSE stdinWrites
  /\ UNCHANGED <<probePc, process, exited, errored, probeTimer, buffer, resolved,
                 probeResult, resolveCalls, chunksSeen>>
  /\ UNCHANGED <<statusVars, storeVars, loginVars, installVars, authVars, verifyVars, sessionVars, socketVars>>

\* The stdout handler with the resolved guard left out.
stdoutDataUnguarded(chunk) ==
  /\ probePc = "running" /\ chunksSeen < MaxChunks
  /\ chunksSeen' = chunksSeen + 1
  /\ buffer' = buffer \o chunk
  /\ LET r == firstResponse(splitLines(buffer', <<>>)) IN
       IF r.kind = "tools"
         THEN /\ resolved' = TRUE /\ cleanup /\ resolve(Success(r.tools))
              /\ probeTimer' = IF probeTimer = "armed" THEN "cleared" ELSE probeTimer
       ELSE IF r.kind = "error"
         THEN /\ resolved' = TRUE /\ cleanup
              /\ resolve(Failure(IF r.message = None THEN <<"Unknown error">>
                                                    ELSE <<The(r.message)>>))
              /\ probeTimer' = IF probeTimer = "armed" THEN "cleared" ELSE probeTimer
       ELSE UNCHANGED <<resolved, probeTimer, process, probeResult, resolveCalls>>
  /\ UNCHANGED <<probePc, exited, errored, toolsTimer, stdinWrites>>
  /\ UNCHANGED <<statusVars, storeVars, loginVars, installVars, authVars, verifyVars, sessionVars, socketVars>>

\* The stdout handler: the chunk is appended to the buffer and every line of
\* the buffer is parsed again; the first tools response or error envelope
\* resolves the probe (if it is not resolved yet) and ends the loop.
stdoutData(chunk) ==
  /\ probePc = "running" /\ chunksSeen < MaxChunks
  /\ chunksSeen' = chunksSeen + 1
  /\ buffer' = buffer \o chunk
  /\ LET r == firstResponse(splitLines(buffer', <<>>)) IN
       IF r.kind = "tools" THEN resolveOnce(Success(r.tools))
       ELSE IF r.kind = "error"
         THEN resolveOnce(Failure(IF r.message = None THEN <<"Unknown error">>
                                                      ELSE <<The(r.message)>>))
       ELSE UNCHANGED <<resolved, probeTimer, process, probeResult, resolveCalls>>
  /\ UNCHANGED <<probePc, exited, errored, toolsTimer, stdinWrites>>
  /\ UNCHANGED <<statusVars, storeVars, loginVars, installVars, authVars, verifyVars, sessionVars, socketVars>>

\* The stderr handler: text with an error indicator resolves the probe with
\* the trimmed text.
stderrData(text) ==
  /\ probePc = "running" /\ chunksSeen < MaxChunks
  /\ chunksSeen' = chunksSeen + 1
  /\ IF hasErrorIndicator(text) THEN resolveOnce(Failure(trim(text)))
     ELSE UNCHANGED <<resolved, probeTimer, process, probeResult, resolveCalls>>
  /\ UNCHANGED <<probePc, exited, errored, toolsTimer, stdinWrites, buffer>>
  /\ UNCHANGED <<statusVars, storeVars, loginVars, installVars, authVars, verifyVars, sessionVars, socketVars>>

\* The process's error event (at most one, and not after its exit).
processError ==
  /\ probePc = "running" /\ ~exited /\ ~errored
  /\ errored' = TRUE
  /\ resolveOnce(Failure(<<"Process error">>))
  /\ UNCHANGED <<probePc, exited, toolsTimer, stdinWrites, buffer, chunksSeen>>
  /\ UNCHANGED <<statusVars, storeVars, loginVars, installVars, authVars, verifyVars, sessionVars, socketVars>>

\* Exit codes: 0, 1, and null (-1 here) for a process ended by a signal.
ExitCodes == {0, 1, -1}

\* The exit handler without the test of the code.
processExitAnyCode(code) ==
  /\ probePc = "running" /\ ~exited
  /\ process = "killed" => code = -1
  /\ exited' = TRUE
  /\ IF ~resolved
       THEN /\ resolved' = TRUE
            /\ probeTimer' = IF probeTimer = "armed" THEN "cleared" ELSE probeTimer
            /\ resolve(Failure(<<"Process exited with code", code>>))
       ELSE UNCHANGED <<resolved, probeTimer, probeResult, resolveCalls>>
  /\ UNCHANGED <<probePc, process, errored, toolsTimer, stdinWrites, buffer, chunksSeen>>
  /\ UNCHANGED <<statusVars, storeVars, loginVars, installVars, authVars, verifyVars, sessionVars, socketVars>>

\* The exit handler: a pending probe fails on a code other than 0; no cleanup.
processExit(code) ==
  /\ probePc = "running" /\ ~exited
  /\ process = "killed" => code = -1
  /\ exited' = TRUE
  /\ IF ~resolved /\ code # 0
       THEN /\ resolved' = TRUE
            /\ probeTimer' = IF probeTimer = "armed" THEN "cleared" ELSE probeTimer
            /\ resolve(Failure(<<"Process exited with code", code>>))
       ELSE UNCHANGED <<resolved, probeTimer, probeResult, resolveCalls>>
  /\ UNCHANGED <<probePc, process, errored, toolsTimer, stdinWrites, buffer, chunksSeen>>
  /\ UNCHANGED <<statusVars, storeVars, loginVars, installVars, authVars, verifyVars, sessionVars, socketVars>>

\* The timeoutMs timer fires and resolves without cleanup().
probeTimeoutNoCleanup ==
  /\ probeTimer = "armed"
  /\ probeTimer' = "fired"
  /\ IF ~resolved
       THEN /\ resolved' = TRUE /\ resolve(Failure(<<"Connection timeout">>))
            /\ UNCHANGED process
       ELSE UNCHANGED <<resolved, process, probeResult, resolveCalls>>
  /\ UNCHANGED <<probePc, exited, errored, toolsTimer, stdinWrites, buffer, chunksSeen>>
  /\ UNCHANGED <<statusVars, storeVars, loginVars, installVars, authVars, verifyVars, sessionVars, socketVars>>

\* The timeoutMs timer fires (unless it was cleared).
probeTimeout ==
  /\ probeTimer = "armed"
  /\ probeTimer' = "fired"
  /\ IF ~resolved
       THEN /\ resolved' = TRUE /\ cleanup /\ resolve(Failure(<<"Connection timeout">>))
       ELSE UNCHANGED <<resolved, process, probeResult, resolveCalls>>
  /\ UNCHANGED <<probePc, exited, errored, toolsTimer, stdinWrites, buffer, chunksSeen>>
  /\ UNCHANGED <<statusVars, storeVars, loginVars, installVars, authVars, verifyVars, sessionVars, socketVars>>

ProbeIdle ==
  /\ probePc = "idle" /\ process = "none" /\ exited = FALSE /\ errored = FALSE
  /\ probeTimer = "none" /\ toolsTimer = "none" /\ stdinWrites = <<>>
  /\ buffer = <<>> /\ resolved = FALSE /\ probeResult = None
  /\ resolveCalls = 0 /\ chunksSeen = 0

ProbeNext ==
  \/ \E spawnThrows \in BOOLEAN : testMcpConnection(spawnThrows)
  \/ sendToolsRequest
  \/ \E chunk \in StdoutChunks : stdoutData(chunk)
  \/ \E text \in StderrTexts : stderrData(text)
  \/ processError
  \/ \E code \in ExitCodes : processExit(code)
  \/ probeTimeout

(***************************************************************************)
(* Install / verify flow: src/commands/installMcp.ts                       *)
(***************************************************************************)
Runs == {"r1", "r2"}

\* Three of MCP_CLIENTS: a global client, a project-local one, and codex.
Clients == {"cursor", "claude-code", "codex"}
projectLocal(c) == c = "claude-code"

\* verifyFromConfig's default maxAttempts.
DefaultMaxAttempts == 5

\* What testMcpConnection can resolve with, as verifyFromConfig sees it.
ProbeResults ==
  {Success(<<"fetch-docs">>), Failure(<<"Connection timeout">>)}

IdleRun ==
  [kind |-> "none", pc |-> "idle", pid |-> "", client |-> None,
   installer |-> None, events |-> {},
   maxAttempts |-> 0, attempt |-> 0, configFileFound |-> FALSE,
   credentialsFound |-> FALSE, lastError |-> <<>>,
   verifies |-> 0, probed |-> FALSE, reports |-> <<>>, returned |-> None]

\* A returned call's locals and listeners are gone: the record keeps what the
\* run was asked, the installer's result, what it reported and what it returned.
setRun(r, run) ==
  runs' = [runs EXCEPT ![r] =
    IF run.pc = "done"
      THEN [run EXCEPT !.events = {}, !.attempt = 0,
                       !.configFileFound = FALSE, !.credentialsFound = FALSE,
                       !.lastError = <<>>]
      ELSE run]

\* The run returns without reporting anything.
returnFalse(r) ==
  /\ setRun(r, [runs[r] EXCEPT !.pc = "done", !.returned = Some(FALSE)])
  /\ UNCHANGED statusVars

\* Step 7 of installMcp and the end of retryVerification: onVerified for a
\* success with tools, else onFailed; the callbacks call markMcpVerified and
\* markMcpFailed without awaiting them.
reportResult(r, run, result) ==
  IF result.success /\ result.tools # None
    THEN /\ setRun(r, [run EXCEPT !.pc = "done", !.returned = Some(TRUE),
                                  !.reports = Append(@, "verified")])
         /\ markMcpVerified(run.pid, The(result.tools))
    ELSE /\ setRun(r, [run EXCEPT !.pc = "done", !.returned = Some(FALSE),
                                  !.reports = Append(@, "failed")])
         /\ markMcpFailed(run.pid, IF result.error = None THEN <<"Unknown error">>
                                                           ELSE The(result.error))

\* The insforge.installMcp command for the current project p: installMcp up
\* to `await showQuickPick`.
installMcp(r, p) ==
  /\ runs[r].kind = "none"
  /\ setRun(r, [runs[r] EXCEPT !.kind = "install", !.pid = p, !.pc = "pickClient"])
  /\ UNCHANGED statusVars

\* The client pick returns: cancelled (None), or a client; a project-local
\* client needs a workspace folder (folders is how many are open).
pickClient(r, choice, folders) ==
  /\ runs[r].pc = "pickClient"
  /\ IF choice = None \/ (projectLocal(The(choice)) /\ folders = 0)
       THEN returnFalse(r)
       ELSE /\ setRun(r, [runs[r] EXCEPT
                 !.client = choice,
                 !.pc = IF projectLocal(The(choice)) /\ folders > 1
                          THEN "pickFolder" ELSE "apiKey"])
            /\ UNCHANGED statusVars

\* The workspace pick returns.
pickFolder(r, picked) ==
  /\ runs[r].pc = "pickFolder"
  /\ IF picked THEN /\ setRun(r, [runs[r] EXCEPT !.pc = "apiKey"])
                    /\ UNCHANGED statusVars
               ELSE returnFalse(r)

\* getProjectApiKey returns: without a key the run ends; with one, steps 5
\* and 6 up to `await runInstaller`: onVerifying, then the spawn (which may
\* throw: the catch reports onFailed).
startInstaller(r, hasKey, spawnThrows) ==
  /\ runs[r].pc = "apiKey"
  /\ IF ~hasKey THEN returnFalse(r)
     ELSE IF spawnThrows
       THEN /\ setRun(r, [runs[r] EXCEPT !.pc = "done", !.returned = Some(FALSE),
                                         !.reports = <<"verifying", "failed">>])
            /\ mcpStatus' = updateMcpStatus(mcpStatus, runs[r].pid, "failed", None,
                                            Some(<<"spawn failed">>))
            /\ statusOps' = statusOps
                 (+) SetToBag({[op |-> "markMcpVerifying", pid |-> runs[r].pid,
                                tools |-> None, pc |-> "refresh"]})
                 (+) SetToBag({[op |-> "markMcpFailed", pid |-> runs[r].pid,
                                tools |-> None, pc |-> "refresh"]})
            /\ UNCHANGED realConnected
       ELSE /\ setRun(r, [runs[r] EXCEPT !.pc = "installer",
                                         !.reports = Append(@, "verifying")])
            /\ markMcpVerifying(runs[r].pid)

InstallerResult(success, exitCode, error) ==
  [success |-> success, exitCode |-> exitCode, error |-> error]

\* resolve(result) taking the latest result instead of the first.
resolveInstallerLatest(r, event, result) ==
  /\ runs[r].pc = "installer"
  /\ event \notin runs[r].events
  /\ setRun(r, [runs[r] EXCEPT !.events = @ \cup {event}, !.installer = Some(result)])
  /\ UNCHANGED statusVars

\* resolve(result) of runInstaller's promise: the first call settles it.
resolveInstaller(r, event, result) ==
  /\ runs[r].pc = "installer"
  /\ event \notin runs[r].events
  /\ setRun(r, [runs[r] EXCEPT
       !.events = @ \cup {event},
       !.installer = IF @ = None THEN Some(result) ELSE @])
  /\ UNCHANGED statusVars

\* The installer process's error event.
installerError(r) ==
  /\ "close" \notin runs[r].events
  /\ resolveInstaller(r, "error", InstallerResult(FALSE, None, Some(<<"spawn npx ENOENT">>)))

\* The installer process's close event; code -1 stands for null.
installerClose(r, code) ==
  resolveInstaller(r, "close",
    InstallerResult(code = 0, IF code = -1 THEN None ELSE Some(code), None))

\* The cancellation token fires: the process is killed and the promise
\* resolved as cancelled.
installerCancel(r) ==
  resolveInstaller(r, "cancel", InstallerResult(FALSE, None, Some(<<"Installation cancelled">>)))

\* The placeholder tool list of the codex client.
CodexTools == <<"(View in Codex CLI)">>

\* verifyFromConfig without the codex exemption.
verifyFromConfigLooping(r, run, maxAttempts) ==
  /\ setRun(r, [run EXCEPT !.verifies = @ + 1, !.pc = "sleep",
                           !.maxAttempts = maxAttempts, !.attempt = 1])
  /\ UNCHANGED statusVars

\* verifyFromConfig called: codex returns its placeholder at once; any other
\* client enters the loop and sleeps before the first attempt.
verifyFromConfig(r, run, maxAttempts) ==
  IF run.client = Some("codex")
    THEN reportResult(r, [run EXCEPT !.verifies = @ + 1], Success(CodexTools))
    ELSE /\ setRun(r, [run EXCEPT !.verifies = @ + 1, !.pc = "sleep",
                                  !.maxAttempts = maxAttempts, !.attempt = 1])
         /\ UNCHANGED statusVars

\* installMcp resumed with the installer's result, the success test left out.
installerResolvedUnchecked(r) ==
  /\ runs[r].pc = "installer" /\ runs[r].installer # None
  /\ verifyFromConfig(r, runs[r], DefaultMaxAttempts)

\* installMcp resumed with the installer's result: a failure is reported
\* (onFailed); a success goes on to verifyFromConfig.
installerResolved(r) ==
  /\ runs[r].pc = "installer" /\ runs[r].installer # None
  /\ LET res == The(runs[r].installer) IN
       IF ~res.success
         THEN reportResult(r, runs[r],
                Failure(IF res.error # None THEN The(res.error)
                        ELSE <<"Installer exited with code", res.exitCode>>))
         ELSE verifyFromConfig(r, runs[r], DefaultMaxAttempts)

\* The failure after the loop with the file flag left out of account.
verifyFailureUnclassified(run) ==
  IF ~run.credentialsFound
    THEN Failure(<<"Config file not found at: path. The installer may have written to a different location.">>)
    ELSE Failure(<<"Config found but MCP connection failed: ">> \o run.lastError)

\* The failure verifyFromConfig returns after the loop.
verifyFailure(run) ==
  IF ~run.configFileFound
    THEN Failure(<<"Config file not found at: path. The installer may have written to a different location.">>)
  ELSE IF ~run.credentialsFound
    THEN Failure(<<"Config file exists but InsForge credentials not found">>)
  ELSE Failure(<<"Config found but MCP connection failed: ">> \o run.lastError)

\* The end of one loop iteration with the caller's report of the loop's
\* failure left out.
nextAttemptUnreported(r, run) ==
  IF run.attempt < run.maxAttempts
    THEN /\ setRun(r, [run EXCEPT !.attempt = @ + 1, !.pc = "sleep"])
         /\ UNCHANGED statusVars
    ELSE returnFalse(r)

\* The end of one loop iteration with the loop test one attempt too late.
nextAttemptOneMore(r, run) ==
  IF run.attempt <= run.maxAttempts
    THEN /\ setRun(r, [run EXCEPT !.attempt = @ + 1, !.pc = "sleep"])
         /\ UNCHANGED statusVars
    ELSE reportResult(r, run, verifyFailure(run))

\* The end of one loop iteration: the next sleep, or the loop's end and the
\* caller's report of the failure.
nextAttempt(r, run) ==
  IF run.attempt < run.maxAttempts
    THEN /\ setRun(r, [run EXCEPT !.attempt = @ + 1, !.pc = "sleep"])
         /\ UNCHANGED statusVars
    ELSE reportResult(r, run, verifyFailure(run))

\* What the config reader (getConfigPath, getInsForgeCredentialsFromConfig)
\* can find at one attempt: no file yet, a file without the insforge entry,
\* or a file with credentials.  It returns null rather than throwing.  The
\* file does not change between the existence check and the credential read.
ConfigReadings ==
  {rd \in [fileExists : BOOLEAN, credentials : BOOLEAN] :
     rd.credentials => rd.fileExists}

\* One attempt after its sleep: the file check, the credential read and,
\* with credentials, the call of testMcpConnection.
verifyAttempt(r, reading) ==
  /\ runs[r].pc = "sleep"
  /\ LET found == runs[r].configFileFound \/ reading.fileExists IN
       IF ~reading.credentials
         THEN nextAttempt(r, [runs[r] EXCEPT
                !.configFileFound = found,
                !.lastError = IF found THEN <<"Config file found but InsForge credentials missing">>
                                       ELSE <<"Config file not found">>])
         ELSE /\ setRun(r, [runs[r] EXCEPT !.configFileFound = found,
                                           !.credentialsFound = TRUE,
                                           !.probed = TRUE, !.pc = "probe"])
              /\ UNCHANGED statusVars

\* testMcpConnection resolves with the success test of the loop left out.
probeReturnsIgnored(r, result) ==
  /\ runs[r].pc = "probe"
  /\ nextAttempt(r, [runs[r] EXCEPT
        !.lastError = IF result.error = None THEN <<"Connection test failed">>
                                             ELSE The(result.error)])

\* testMcpConnection resolves: success with tools ends verifyFromConfig, a
\* failure is remembered as lastError.
probeReturns(r, result) ==
  /\ runs[r].pc = "probe"
  /\ IF result.success /\ result.tools # None
       THEN reportResult(r, runs[r], result)
       ELSE nextAttempt(r, [runs[r] EXCEPT
              !.lastError = IF result.error = None THEN <<"Connection test failed">>
                                                   ELSE The(result.error)])

\* retryVerification(p, .., callbacks, clientId): onVerifying; without a
\* client id onFailed at once; else verifyFromConfig(clientId, .., 5, 1000),
\* which for codex returns its placeholder with no timer or I/O awaited, so
\* that onVerified follows onVerifying before any other handler runs.
retryVerification(r, p, clientId) ==
  /\ runs[r].kind = "none"
  /\ IF clientId = None
       THEN /\ setRun(r, [runs[r] EXCEPT !.kind = "retry", !.pid = p, !.pc = "done",
                                         !.reports = <<"verifying", "failed">>])
            /\ mcpStatus' = updateMcpStatus(mcpStatus, p, "failed", None,
                                            Some(<<"Cannot retry: unknown client type. Please reinstall MCP.">>))
            /\ statusOps' = statusOps
                 (+) SetToBag({[op |-> "markMcpVerifying", pid |-> p,
                                tools |-> None, pc |-> "refresh"]})
                 (+) SetToBag({[op |-> "markMcpFailed", pid |-> p,
                                tools |-> None, pc |-> "refresh"]})
            /\ UNCHANGED realConnected
       ELSE IF clientId = Some("codex")
         THEN /\ setRun(r, [runs[r] EXCEPT !.kind = "retry", !.pid = p, !.client = clientId,
                                           !.verifies = 1, !.pc = "done",
                                           !.returned = Some(TRUE),
                                           !.reports = <<"verifying", "verified">>])
              /\ mcpStatus' = clearOtherVerifiedStatuses(
                                updateMcpStatus(mcpStatus, p, "verifying", None, None), p)
              /\ statusOps' = statusOps
                   (+) SetToBag({[op |-> "markMcpVerifying", pid |-> p,
                                  tools |-> None, pc |-> "refresh"]})
                   (+) SetToBag({[op |-> "markMcpVerified", pid |-> p,
                                  tools |-> Some(CodexTools), pc |-> "update"]})
              /\ UNCHANGED realConnected
       ELSE /\ runs[r].verifies = 0
            /\ setRun(r, [runs[r] EXCEPT !.kind = "retry", !.pid = p, !.client = clientId,
                                         !.verifies = 1, !.pc = "sleep",
                                         !.maxAttempts = DefaultMaxAttempts, !.attempt = 1,
                                         !.reports = <<"verifying">>])
            /\ markMcpVerifying(p)

\* A run starts only when the runs before it have started.
MayStart(r) == r = "r2" => runs["r1"].kind # "none"

InstallFrame == UNCHANGED <<storeVars, loginVars, probeVars, authVars, verifyVars, sessionVars, socketVars>>

\* The steps of run r.
RunStep(r) ==
  \/ \E p \in Projects : MayStart(r) /\ installMcp(r, p) /\ InstallFrame
  \/ \E c \in {None} \cup {Some(x) : x \in Clients}, n \in 0..2 :
       pickClient(r, c, n) /\ InstallFrame
  \/ \E b \in BOOLEAN : pickFolder(r, b) /\ InstallFrame
  \/ \E k \in BOOLEAN, t \in BOOLEAN : startInstaller(r, k, t) /\ InstallFrame
  \/ installerError(r) /\ InstallFrame
  \/ \E code \in ExitCodes : installerClose(r, code) /\ InstallFrame
  \/ installerCancel(r) /\ InstallFrame
  \/ installerResolved(r) /\ InstallFrame
  \/ \E rd \in ConfigReadings : verifyAttempt(r, rd) /\ InstallFrame
  \/ \E res \in ProbeResults : probeReturns(r, res) /\ InstallFrame
  \/ \E p \in Projects, c \in {None, Some("cursor"), Some("codex")} :
       MayStart(r) /\ retryVerification(r, p, c) /\ InstallFrame

\* The steps of run r once its installer has been spawned: the installer's
\* events, the resumption of installMcp, the loop's timer and the probe.
RunProgress(r) ==
  \/ installerError(r) /\ InstallFrame
  \/ \E code \in ExitCodes : installerClose(r, code) /\ InstallFrame
  \/ installerCancel(r) /\ InstallFrame
  \/ installerResolved(r) /\ InstallFrame
  \/ \E rd \in ConfigReadings : verifyAttempt(r, rd) /\ InstallFrame
  \/ \E res \in ProbeResults : probeReturns(r, res) /\ InstallFrame

\* The suspended status operations resume.
StatusProgress ==
  \/ \E o \in BagToSet(statusOps) : markMcpVerifiedUpdate(o) /\ StatusStep
  \/ \E o \in BagToSet(statusOps) : refresh(o) /\ StatusStep

InstallNext ==
  \/ \E r \in Runs : RunStep(r)
  \/ \E o \in BagToSet(statusOps) : markMcpVerifiedUpdate(o) /\ StatusStep
  \/ \E o \in BagToSet(statusOps) : refresh(o) /\ StatusStep

(***************************************************************************)
(* Token Store and Authenticated Client: src/auth/authProvider.ts          *)
(***************************************************************************)
Callers == {"a", "b"}

\* The 30 second buffer of isTokenExpired, in milliseconds.
ExpiryMarginMs == 30000

\* The clock advances in steps of the margin, MaxTicks times at most.
MaxTicks == 2

\* The tokens the token endpoint issues in reply to caller c's refresh.
IssuedAccess(c) == IF c = "a" THEN "A1" ELSE "A2"
IssuedRefresh(c) == IF c = "a" THEN "R1" ELSE "R2"

\* Statuses of an API response.
Statuses == {"200", "401"}

IdleCall ==
  [op |-> "none", pc |-> "idle", phase |-> "none", reply |-> NoReply,
   hadToken |-> FALSE, boundary |-> None, requests |-> 0, overlapped |-> FALSE,
   refreshOk |-> [pre |-> "none", post |-> "none"],
   refreshCalls |-> [pre |-> 0, post |-> 0],
   sent |-> <<>>, statuses |-> <<>>, result |-> "none"]

InFlight(c) == calls[c].pc \notin {"idle", "done"}

\* isTokenExpired: no stored expiry counts as valid.
isTokenExpired ==
  tokenExpiry # None /\ The(tokenExpiry) # 0 /\ now > The(tokenExpiry) - ExpiryMarginMs

\* The step's writes: the secrets (access, refresh) and the global state
\* (expiry, profile), the isLoggedIn context key and the auth events.
Store(access, rtoken, expiry, user, loggedIn, events) ==
  /\ accessToken' = access /\ refreshToken' = rtoken /\ tokenExpiry' = expiry
  /\ userData' = user /\ isLoggedIn' = loggedIn /\ authEvents' = events
  /\ now' = now

AuthFrameOther == UNCHANGED <<statusVars, loginVars, probeVars, installVars, verifyVars, socketVars>>
AuthFrame == AuthFrameOther /\ UNCHANGED sessionVars

setCall(c, call) == calls' = [calls EXCEPT ![c] = call]

\* Caller c's call begins; it and the calls in flight at that moment overlap.
startCall(c, call) ==
  calls' = [x \in Callers |->
              IF x = c THEN [call EXCEPT !.overlapped = \E d \in Callers : InFlight(d)]
              ELSE IF InFlight(x) THEN [calls[x] EXCEPT !.overlapped = TRUE]
              ELSE calls[x]]

\* The call returns (or throws) result.
return(c, call, result) == setCall(c, [call EXCEPT !.pc = "done", !.result = result])

\* refreshAccessToken is entered in the given phase: up to
\* `await secrets.get(REFRESH_SECRET_KEY)`.
refreshAccessToken(c, call, phase) ==
  setCall(c, [call EXCEPT !.pc = "getRefresh", !.phase = phase,
                          !.refreshCalls[phase] = @ + 1])

\* refreshAccessToken has returned ok to its caller, the step having left the
\* secrets at access, refresh and the expiry at expiry.  isAuthenticated and
\* handleUnauthorized go on to clearAuth on a failure (its first statement
\* deletes the access token); authenticatedFetch's pre-emptive refresh throws
\* UNAUTHORIZED on a failure and goes on to read the token on a success.
refreshed(c, call, ok, access, rtoken, expiry) ==
  LET done == [call EXCEPT !.refreshOk[call.phase] = IF ok THEN "ok" ELSE "failed"] IN
  IF ok
    THEN /\ Store(access, rtoken, expiry, userData, isLoggedIn, authEvents)
         /\ IF call.op = "isAuthenticated" THEN return(c, done, "true")
            ELSE IF call.phase = "pre" THEN setCall(c, [done EXCEPT !.pc = "getToken"])
            ELSE setCall(c, [done EXCEPT !.pc = "getNewToken"])
    ELSE IF call.op = "authenticatedFetch" /\ call.phase = "pre"
      THEN /\ Store(access, rtoken, expiry, userData, isLoggedIn, authEvents)
           /\ return(c, done, "UNAUTHORIZED")
      ELSE /\ Store(None, rtoken, expiry, userData, isLoggedIn, authEvents)
           /\ setCall(c, [done EXCEPT !.pc = "clearAccess"])

\* isAuthenticated(): up to `await this.getAccessToken()`.
isAuthenticated(c) ==
  /\ calls[c].op = "none"
  /\ startCall(c, [calls[c] EXCEPT !.op = "isAuthenticated", !.pc = "getToken"])
  /\ UNCHANGED storeVars /\ AuthFrame

\* authenticatedFetch(url) is called by c: the pre-emptive refresh of an
\* expired token, or straight to `await this.getAccessToken()`.
callAuthenticatedFetch(c) ==
  LET call == [IdleCall EXCEPT !.op = "authenticatedFetch"] IN
    IF isTokenExpired
      THEN startCall(c, [call EXCEPT !.boundary = tokenExpiry, !.pc = "getRefresh",
                                     !.phase = "pre", !.refreshCalls["pre"] = 1])
      ELSE startCall(c, [call EXCEPT !.pc = "getToken"])

authenticatedFetch(c) ==
  /\ calls[c].op = "none"
  /\ callAuthenticatedFetch(c)
  /\ UNCHANGED storeVars /\ AuthFrame

\* getAccessToken resolves.  isAuthenticated: false without a token, a
\* refresh when the token is expired, else true.  authenticatedFetch:
\* UNAUTHORIZED without a token, else the request is sent with it.
gotAccessToken(c) ==
  /\ calls[c].pc = "getToken"
  /\ LET call == [calls[c] EXCEPT !.hadToken = accessToken # None] IN
       IF accessToken = None
         THEN return(c, call, IF call.op = "isAuthenticated" THEN "false" ELSE "UNAUTHORIZED")
       ELSE IF call.op = "authenticatedFetch"
         THEN setCall(c, [call EXCEPT !.pc = "fetch", !.sent = Append(@, accessToken)])
       ELSE IF isTokenExpired
         THEN refreshAccessToken(c, [call EXCEPT !.boundary = tokenExpiry], "pre")
       ELSE return(c, call, "true")
  /\ UNCHANGED storeVars /\ AuthFrame

\* The refresh token is read: without one the refresh fails with no request,
\* with one the request goes to the token endpoint.
gotRefreshToken(c) ==
  /\ calls[c].pc = "getRefresh"
  /\ IF refreshToken = None
       THEN refreshed(c, calls[c], FALSE, accessToken, refreshToken, tokenExpiry)
       ELSE /\ setCall(c, [calls[c] EXCEPT !.pc = "refreshFetch", !.requests = @ + 1])
            /\ UNCHANGED storeVars
  /\ AuthFrame

\* The token endpoint replies: a transport error, a non-OK response or an
\* error body fail the refresh; else the new access token is stored.
refreshResponse(c, reply) ==
  /\ calls[c].pc = "refreshFetch"
  /\ IF reply.kind # "json" \/ reply.error # None
       THEN refreshed(c, calls[c], FALSE, accessToken, refreshToken, tokenExpiry)
       ELSE /\ Store(Some(reply.access_token), refreshToken, tokenExpiry,
                     userData, isLoggedIn, authEvents)
            /\ setCall(c, [calls[c] EXCEPT !.pc = "storedAccess", !.reply = reply])
  /\ AuthFrame

\* refreshAccessToken after each of its stores: the refresh token when the
\* reply has one, the expiry when the reply has expires_in, then true.
refreshStore(c) ==
  /\ calls[c].pc \in {"storedAccess", "storedRefresh", "storedExpiry"}
  /\ LET call == calls[c]
         reply == call.reply
     IN IF call.pc = "storedAccess" /\ reply.refresh_token # None
          THEN /\ Store(accessToken, reply.refresh_token, tokenExpiry,
                        userData, isLoggedIn, authEvents)
               /\ setCall(c, [call EXCEPT !.pc = "storedRefresh"])
        ELSE IF call.pc # "storedExpiry" /\ reply.expires_in \notin {None, Some(0)}
          THEN /\ Store(accessToken, refreshToken, Some(now + The(reply.expires_in) * 1000),
                        userData, isLoggedIn, authEvents)
               /\ setCall(c, [call EXCEPT !.pc = "storedExpiry"])
        ELSE refreshed(c, call, TRUE, accessToken, refreshToken, tokenExpiry)
  /\ AuthFrame

\* clearAuth as logout clears: the stored expiry is left behind.
clearAuthKeepExpiry(c) ==
  /\ calls[c].pc \in {"clearAccess", "clearRefresh", "clearUser"}
  /\ CASE calls[c].pc = "clearAccess" ->
            /\ Store(accessToken, None, tokenExpiry, userData, isLoggedIn, authEvents)
            /\ UNCHANGED <<currentOrg, currentProject>>
            /\ setCall(c, [calls[c] EXCEPT !.pc = "clearRefresh"])
       [] calls[c].pc = "clearRefresh" ->
            /\ Store(accessToken, refreshToken, tokenExpiry, None, isLoggedIn, authEvents)
            /\ UNCHANGED <<currentOrg, currentProject>>
            /\ setCall(c, [calls[c] EXCEPT !.pc = "clearUser"])
       [] calls[c].pc = "clearUser" ->
            /\ Store(accessToken, refreshToken, tokenExpiry, userData, FALSE,
                     Append(authEvents, FALSE))
            /\ currentOrg' = None /\ currentProject' = None
            /\ return(c, calls[c],
                 IF calls[c].op = "isAuthenticated" THEN "false" ELSE "UNAUTHORIZED")
  /\ UNCHANGED <<logoutPc, selection>> /\ AuthFrameOther

\* clearAuth after each of its awaits: the refresh token, the profile and the
\* expiry are deleted in turn, then the current organization and project are
\* reset, the context key is reset, the auth event fired, and the caller
\* returns false or throws UNAUTHORIZED.
clearAuth(c) ==
  /\ calls[c].pc \in {"clearAccess", "clearRefresh", "clearUser", "clearExpiry"}
  /\ CASE calls[c].pc = "clearAccess" ->
            /\ Store(accessToken, None, tokenExpiry, userData, isLoggedIn, authEvents)
            /\ UNCHANGED <<currentOrg, currentProject>>
            /\ setCall(c, [calls[c] EXCEPT !.pc = "clearRefresh"])
       [] calls[c].pc = "clearRefresh" ->
            /\ Store(accessToken, refreshToken, tokenExpiry, None, isLoggedIn, authEvents)
            /\ UNCHANGED <<currentOrg, currentProject>>
            /\ setCall(c, [calls[c] EXCEPT !.pc = "clearUser"])
       [] calls[c].pc = "clearUser" ->
            /\ Store(accessToken, refreshToken, None, userData, isLoggedIn, authEvents)
            /\ UNCHANGED <<currentOrg, currentProject>>
            /\ setCall(c, [calls[c] EXCEPT !.pc = "clearExpiry"])
       [] calls[c].pc = "clearExpiry" ->
            /\ Store(accessToken, refreshToken, tokenExpiry, userData, FALSE,
                     Append(authEvents, FALSE))
            /\ currentOrg' = None /\ currentProject' = None
            /\ return(c, calls[c],
                 IF calls[c].op = "isAuthenticated" THEN "false" ELSE "UNAUTHORIZED")
  /\ UNCHANGED <<logoutPc, selection>> /\ AuthFrameOther

\* After a successful refresh on a 401: the new token is read and the request
\* sent once more with it.
gotNewToken(c) ==
  /\ calls[c].pc = "getNewToken"
  /\ setCall(c, [calls[c] EXCEPT !.pc = "retry", !.sent = Append(@, accessToken)])
  /\ UNCHANGED storeVars /\ AuthFrame

\* A response is handled as the first one is, whichever request it answers.
fetchResponseRetrying(c, status) ==
  /\ calls[c].pc \in {"fetch", "retry"}
  /\ LET call == [calls[c] EXCEPT !.statuses = Append(@, status)] IN
       IF status = "401" /\ call.refreshCalls.post < 2
         THEN refreshAccessToken(c, call, "post")
         ELSE return(c, call, status)
  /\ UNCHANGED storeVars /\ AuthFrame

\* A response arrives.  To the first request: a 401 goes to
\* handleUnauthorized, anything else is returned.  To the retry: returned
\* whatever its status.
fetchResponse(c, status) ==
  /\ calls[c].pc \in {"fetch", "retry"}
  /\ LET call == [calls[c] EXCEPT !.statuses = Append(@, status)] IN
       IF call.pc = "fetch" /\ status = "401"
         THEN refreshAccessToken(c, call, "post")
         ELSE return(c, call, status)
  /\ UNCHANGED storeVars /\ AuthFrame

\* Time passes.
Tick ==
  /\ now < MaxTicks * ExpiryMarginMs
  /\ now' = now + ExpiryMarginMs
  /\ UNCHANGED <<accessToken, refreshToken, tokenExpiry, userData, isLoggedIn, authEvents>>
  /\ UNCHANGED calls /\ AuthFrame

\* The steps of caller c's call once it has started.
CallStep(c) ==
  \/ gotAccessToken(c)
  \/ gotRefreshToken(c)
  \/ \E reply \in TokenReplies(IssuedAccess(c), IssuedRefresh(c)) : refreshResponse(c, reply)
  \/ refreshStore(c)
  \/ clearAuth(c)
  \/ gotNewToken(c)
  \/ \E status \in Statuses : fetchResponse(c, status)

\* Callers start their calls at any time.
AuthNext ==
  \/ \E c \in Callers : isAuthenticated(c)
  \/ \E c \in Callers : authenticatedFetch(c)
  \/ \E c \in Callers : CallStep(c)
  \/ Tick

(***************************************************************************)
(* Session: logout and the project selection of the projects view          *)
(* (src/auth/authProvider.ts, src/views/projectsViewProvider.ts)           *)
(***************************************************************************)
\* The organization the projects of the model belong to.
Org == "O"

\* The handler's fetches are the calls of caller "a".
Selector == "a"

SessionFrame == UNCHANGED <<statusVars, loginVars, probeVars, installVars, verifyVars, socketVars>>

\* logout() up to its first await: secrets.delete(AUTH_SECRET_KEY).
logout ==
  /\ logoutPc = "idle"
  /\ logoutPc' = "clearAccess"
  /\ Store(None, refreshToken, tokenExpiry, userData, isLoggedIn, authEvents)
  /\ UNCHANGED <<currentOrg, currentProject, selection, calls>> /\ SessionFrame

\* logout() after each of its awaits: the refresh token and the profile are
\* deleted in turn; then the current organization and project are reset,
\* the context key is reset and the auth event fired.  TOKEN_EXPIRY_KEY is
\* not written.
logoutStep ==
  /\ logoutPc \in {"clearAccess", "clearRefresh", "clearUser"}
  /\ CASE logoutPc = "clearAccess" ->
            /\ Store(accessToken, None, tokenExpiry, userData, isLoggedIn, authEvents)
            /\ logoutPc' = "clearRefresh"
            /\ UNCHANGED <<currentOrg, currentProject>>
       [] logoutPc = "clearRefresh" ->
            /\ Store(accessToken, refreshToken, tokenExpiry, None, isLoggedIn, authEvents)
            /\ logoutPc' = "clearUser"
            /\ UNCHANGED <<currentOrg, currentProject>>
       [] logoutPc = "clearUser" ->
            /\ Store(accessToken, refreshToken, tokenExpiry, userData, FALSE,
                     Append(authEvents, FALSE))
            /\ logoutPc' = "done"
            /\ currentOrg' = None /\ currentProject' = None
  /\ UNCHANGED <<selection, calls>> /\ SessionFrame

\* _handleSelectProject(orgId, projectId) up to the await of
\* getOrganizations, which calls authenticatedFetch.
selectProject(projectId) ==
  /\ selection.pc = "idle" /\ calls[Selector].op = "none"
  /\ selection' = [pc |-> "getOrgs", projectId |-> Some(projectId)]
  /\ callAuthenticatedFetch(Selector)
  /\ UNCHANGED <<currentOrg, currentProject, logoutPc>>
  /\ UNCHANGED storeVars /\ SessionFrame

\* What getOrganizations / getProjects make of the finished fetch: the list
\* of an ok response, [] for a response that is not ok and for a throw.
listReturned == calls[Selector].result = "200"

\* getOrganizations has returned: without the organization in the list the
\* handler returns, with it (found) getProjects is called and awaited.
orgsReturned(found) ==
  /\ selection.pc = "getOrgs" /\ calls[Selector].pc = "done"
  /\ IF listReturned /\ found
       THEN /\ selection' = [selection EXCEPT !.pc = "getProjects"]
            /\ callAuthenticatedFetch(Selector)
       ELSE /\ selection' = [selection EXCEPT !.pc = "done"]
            /\ calls' = [calls EXCEPT ![Selector] = IdleCall]
  /\ UNCHANGED <<currentOrg, currentProject, logoutPc>>
  /\ UNCHANGED storeVars /\ SessionFrame

\* getProjects has returned: without the project in the list the handler
\* returns, with it (found) setCurrentOrg and setCurrentProject are called.
projectsReturned(found) ==
  /\ selection.pc = "getProjects" /\ calls[Selector].pc = "done"
  /\ IF listReturned /\ found
       THEN /\ currentOrg' = Some(Org)
            /\ currentProject' = selection.projectId
       ELSE UNCHANGED <<currentOrg, currentProject>>
  /\ selection' = [selection EXCEPT !.pc = "done"]
  /\ calls' = [calls EXCEPT ![Selector] = IdleCall]
  /\ UNCHANGED logoutPc
  /\ UNCHANGED storeVars /\ SessionFrame

StoreEmpty ==
  /\ accessToken = None /\ refreshToken = None /\ tokenExpiry = None
  /\ userData = None /\ isLoggedIn = FALSE

LoginIdle ==
  /\ loginPc = "idle" /\ loginResult = None /\ promise = "none"
  /\ server = "none" /\ closeCalls = 0 /\ browserOpened = FALSE
  /\ timer = "none" /\ handlers = EmptyBag /\ exchangeCalls = 0
  /\ callbacksSeen = 0 /\ mismatchSeen = FALSE

LoginInit ==
  /\ StatusInit
  /\ StoreEmpty /\ authEvents = <<>> /\ now = 0
  /\ LoginIdle
  /\ ProbeIdle
  /\ runs = [r \in Runs |-> IdleRun]
  /\ calls = [c \in Callers |-> IdleCall]
  /\ attemptLog = <<>>
  /\ SessionIdle /\ SocketIdle

\* The stores as an earlier session left them: logged out (a logout leaves
\* the expiry behind), or logged in with or without a refresh token, the
\* expiry absent for a session stored before expiries were kept.
AuthInit ==
  /\ StatusInit /\ LoginIdle /\ ProbeIdle
  /\ runs = [r \in Runs |-> IdleRun]
  /\ calls = [c \in Callers |-> IdleCall]
  /\ attemptLog = <<>>
  /\ SessionIdle /\ SocketIdle
  /\ authEvents = <<>> /\ now = 0
  /\ tokenExpiry \in {None} \cup {Some(x * 1000) : x \in ExpiresInValues}
  /\ \/ /\ accessToken = None /\ refreshToken = None
        /\ userData = None /\ isLoggedIn = FALSE
     \/ /\ accessToken = Some("A0") /\ refreshToken \in {None, Some("R0")}
        /\ userData = Some("user") /\ isLoggedIn = TRUE

LoginNext ==
  \/ login
  \/ listening
  \/ serverError
  \/ \E req \in Requests : handleRequest(req)
  \/ \E h \in BagToSet(handlers), r \in TokenReplies("A1", "R1") : exchangeCodeForTokens(h, r)
  \/ \E h \in BagToSet(handlers) : storeRefreshToken(h)
  \/ \E h \in BagToSet(handlers) : storeExpiry(h)
  \/ \E h \in BagToSet(handlers) : fetchUserData(h)
  \/ \E h \in BagToSet(handlers), ok \in BOOLEAN : storeUserData(h, ok)
  \/ \E h \in BagToSet(handlers) : finishCallback(h)
  \/ loginTimeout
  \/ loginReturn

SpecLogin == LoginInit /\ [][LoginNext]_vars

(***************************************************************************)
(* A logged-in session: one project selection and one logout               *)
(***************************************************************************)
\* The session a successful login left: the tokens (the refresh token when
\* the provider supplied one), the expiry, the profile; a project selected
\* earlier or none.
SessionInit ==
  /\ StatusInit /\ LoginIdle /\ ProbeIdle
  /\ runs = [r \in Runs |-> IdleRun]
  /\ calls = [c \in Callers |-> IdleCall]
  /\ attemptLog = <<>>
  /\ authEvents = <<TRUE>> /\ now = 0
  /\ accessToken = Some("A0") /\ refreshToken \in {None, Some("R0")}
  /\ tokenExpiry \in {Some(x * 1000) : x \in ExpiresInValues}
  /\ userData = Some("user") /\ isLoggedIn = TRUE
  /\ \/ currentOrg = None /\ currentProject = None
     \/ currentOrg = Some(Org) /\ currentProject = Some("Q")
  /\ logoutPc = "idle" /\ selection = [pc |-> "idle", projectId |-> None]
  /\ SocketIdle

SessionNext ==
  \/ \E p \in Projects : selectProject(p)
  \/ \E found \in BOOLEAN : orgsReturned(found)
  \/ \E found \in BOOLEAN : projectsReturned(found)
  \/ CallStep(Selector)
  \/ logout
  \/ logoutStep

SpecSession == SessionInit /\ [][SessionNext]_vars

(***************************************************************************)
(* The status map under arbitrary callers                                  *)
(***************************************************************************)
StatusNext ==
  \/ \E p \in Projects : markMcpVerifying(p) /\ StatusCall
  \/ \E p \in Projects, t \in ToolLists : markMcpVerified(p, t) /\ StatusCall
  \/ \E p \in Projects, e \in Errors : markMcpFailed(p, e) /\ StatusCall
  \/ clearAllState /\ StatusCall
  \/ markMcpRealConnected /\ StatusCall
  \/ \E o \in BagToSet(statusOps) : markMcpVerifiedUpdate(o) /\ StatusStep
  \/ \E o \in BagToSet(statusOps) : clearAllStateReal(o) /\ StatusStep
  \/ \E o \in BagToSet(statusOps) : refresh(o) /\ StatusStep

SpecStatus == LoginInit /\ [][StatusNext]_vars

\* Each status operation is awaited before the next is called.
StatusSeqNext ==
  \/ \E p \in Projects : statusOps = EmptyBag /\ markMcpVerifying(p) /\ StatusStep
  \/ \E p \in Projects, t \in ToolLists :
       statusOps = EmptyBag /\ markMcpVerified(p, t) /\ StatusStep
  \/ \E p \in Projects, e \in Errors : statusOps = EmptyBag /\ markMcpFailed(p, e) /\ StatusStep
  \/ statusOps = EmptyBag /\ clearAllState /\ StatusStep
  \/ statusOps = EmptyBag /\ markMcpRealConnected /\ StatusStep
  \/ \E o \in BagToSet(statusOps) : markMcpVerifiedUpdate(o) /\ StatusStep
  \/ \E o \in BagToSet(statusOps) : clearAllStateReal(o) /\ StatusStep
  \/ \E o \in BagToSet(statusOps) : refresh(o) /\ StatusStep

SpecStatusSeq == LoginInit /\ [][StatusSeqNext]_vars

SpecProbe == LoginInit /\ [][ProbeNext]_vars

\* An armed setTimeout fires.
SpecProbeFair == SpecProbe /\ WF_vars(probeTimeout)

SpecAuth == AuthInit /\ [][AuthNext]_vars

SpecInstall == LoginInit /\ [][InstallNext]_vars

\* verifyFromConfig(clientId, folder, maxAttempts, delayMs) just called for a
\* client with a config file, by a run that has reported verifying.
VerifyInit ==
  /\ realConnected = FALSE /\ statusOps = EmptyBag
  /\ mcpStatus = updateMcpStatus([p \in Projects |-> Absent], "P", "verifying", None, None)
  /\ StoreEmpty /\ authEvents = <<>> /\ now = 0
  /\ LoginIdle /\ ProbeIdle
  /\ calls = [c \in Callers |-> IdleCall]
  /\ attemptLog = <<>>
  /\ SessionIdle /\ SocketIdle
  /\ \E n \in 1..DefaultMaxAttempts, c \in Clients \ {"codex"} :
       runs = [r \in Runs |->
                IF r = "r1"
                  THEN [IdleRun EXCEPT !.kind = "retry", !.pid = "P", !.client = Some(c),
                                       !.verifies = 1, !.pc = "sleep", !.maxAttempts = n,
                                       !.attempt = 1, !.reports = <<"verifying">>]
                  ELSE IdleRun]

\* The results the probe can resolve with, told apart by tools and error.
ProbeOutcomes ==
  {Success(t) : t \in ToolLists}
    \cup {Failure(e) : e \in {<<"Connection timeout">>, <<"Process exited with code 1">>}}

VerifyFrame == UNCHANGED <<storeVars, loginVars, probeVars, authVars, sessionVars, socketVars>>

\* The loop of that call, each attempt's reading and probe result logged.
VerifyNext ==
  \/ \E rd \in ConfigReadings :
       /\ verifyAttempt("r1", rd)
       /\ attemptLog' = Append(attemptLog, [reading |-> rd, probe |-> None])
       /\ VerifyFrame
  \/ \E res \in ProbeOutcomes :
       /\ probeReturns("r1", res)
       /\ attemptLog' = [attemptLog EXCEPT ![Len(attemptLog)].probe = Some(res)]
       /\ VerifyFrame
  \/ StatusProgress

SpecVerify == VerifyInit /\ [][VerifyNext]_vars

\* The readings when the file may be written between fs.existsSync and the
\* reader's own read of it: the two results are independent.
RacingConfigReadings == [fileExists : BOOLEAN, credentials : BOOLEAN]

\* The loop of the observed call with such readings.
VerifyRaceNext ==
  \/ \E rd \in RacingConfigReadings :
       /\ verifyAttempt("r1", rd)
       /\ attemptLog' = Append(attemptLog, [reading |-> rd, probe |-> None])
       /\ VerifyFrame
  \/ \E res \in ProbeOutcomes :
       /\ probeReturns("r1", res)
       /\ attemptLog' = [attemptLog EXCEPT ![Len(attemptLog)].probe = Some(res)]
       /\ VerifyFrame
  \/ StatusProgress

SpecVerifyRace == VerifyInit /\ [][VerifyRaceNext]_vars

\* Run r1 against the retry the views start, which passes no client id.
InstallRetryNext ==
  \/ RunStep("r1")
  \/ \E p \in Projects : retryVerification("r2", p, None) /\ InstallFrame
  \/ StatusProgress

\* The installer process ends or is cancelled, timers fire, the probe
\* resolves (it has its own timeout) and suspended calls resume.
SpecInstallFair ==
  /\ LoginInit /\ [][InstallRetryNext]_vars
  /\ WF_vars(RunProgress("r1"))
  /\ WF_vars(StatusProgress)

Init == LoginInit

SpecSocket == LoginInit /\ [][SocketNext]_vars

Next == StatusNext \/ LoginNext \/ ProbeNext \/ InstallNext \/ AuthNext \/ SessionNext \/ SocketNext

Spec == Init /\ [][Next]_vars

(***************************************************************************)
(* Claims                                                                  *)
(***************************************************************************)
\* C1: in every reachable state of the status map, whatever the calls of
\* markMcpVerifying, markMcpVerified, markMcpFailed and clearAllState and
\* however they interleave at their awaits, at most one project is verified.
AtMostOneVerified == Cardinality(VerifiedProjects) <= 1

\* C2: handling a /callback request whose state differs from the generated
\* one never calls exchangeCodeForTokens, suspends no handler, stores no
\* token, expiry or profile and resolves the promise to null; and a login()
\* that handled such a request returns false.
StateMismatchNeverExchanges ==
  /\ [][\A req \in Requests :
          (req.path = "/callback" /\ stateMismatch(req) /\ handleRequest(req))
            => /\ exchangeCalls' = exchangeCalls
               /\ handlers' = handlers
               /\ <<accessToken, refreshToken, tokenExpiry, userData>>'
                    = <<accessToken, refreshToken, tokenExpiry, userData>>
               /\ promise' = "null"]_vars
  /\ [](mismatchSeen /\ loginPc = "returned" => loginResult = Some(FALSE))

\* C2 witness: a login that handled a wrong-state callback has returned false.
StateMismatchLoginFailed ==
  mismatchSeen /\ loginPc = "returned" /\ loginResult = Some(FALSE) /\ exchangeCalls = 0

\* C3: a login attempt in which a matching callback with a code arrived (so
\* the exchange is invoked at all) invokes exchangeCodeForTokens exactly
\* once, however many callbacks reach the listener before it is closed.
ExchangeExactlyOnce == exchangeCalls > 0 => exchangeCalls = 1

\* C4: the listener of a login attempt is closed by exactly one call of
\* server.close(), and once login() has returned it has been closed and is
\* not listening.
ListenerTornDownExactlyOnce ==
  /\ closeCalls <= 1
  /\ (loginPc = "returned" /\ browserOpened) => (closeCalls = 1 /\ server # "listening")

VerifyOnlyAfterInstallerSuccess ==
  \A r \in Runs : runs[r].kind = "install" =>
    /\ (runs[r].verifies > 0 \/ runs[r].probed \/ runs[r].pc \in {"sleep", "probe"})
          => /\ runs[r].installer # None
             /\ The(runs[r].installer).success
             /\ The(runs[r].installer).exitCode = Some(0)
    /\ (runs[r].installer # None /\ ~The(runs[r].installer).success)
          => runs[r].verifies = 0 /\ ~runs[r].probed /\ runs[r].attempt = 0

\* C6 witness: one run verified through a probe after exit code 0, another
\* ended by a cancelled installer without any verification.
VerifiedAfterExitZeroAndCancelledUnverified ==
  \E r, q \in Runs :
    /\ runs[r].kind = "install" /\ runs[r].probed
    /\ runs[r].reports = <<"verifying", "verified">>
    /\ runs[q].kind = "install" /\ runs[q].pc = "done"
    /\ runs[q].installer = Some(InstallerResult(FALSE, None, Some(<<"Installation cancelled">>)))
    /\ runs[q].reports = <<"verifying", "failed">>

Terminal == {"verified", "failed"}

OneRefreshRequestPerBoundary ==
  \A c, d \in Callers :
    (/\ c # d
     /\ calls[c].op = "isAuthenticated" /\ calls[d].op = "isAuthenticated"
     /\ InFlight(c) /\ InFlight(d)
     /\ calls[c].boundary # None /\ calls[c].boundary = calls[d].boundary)
      => calls[c].requests + calls[d].requests <= 1

StoreCleared ==
  accessToken = None /\ refreshToken = None /\ userData = None /\ tokenExpiry = None

\* The step in which caller c's call of op returns or throws.
Returns(c, op) ==
  calls[c].op = op /\ calls[c].pc # "done" /\ calls'[c].pc = "done"

\* C9: isAuthenticated returns false when no access token is stored; with a
\* token stored and now later than the expiry minus 30 s it attempts one
\* refresh, and when that refresh fails the result is false and, for a call
\* that no other call overlapped, the access token, refresh token, profile
\* and expiry are all cleared on return; otherwise it returns true.
IsAuthenticatedContract ==
  /\ [][\A c \in Callers :
          (calls[c].op = "isAuthenticated" /\ calls[c].pc = "getToken"
             /\ calls'[c].pc # "getToken")
            => /\ accessToken = None => calls'[c].result = "false"
               /\ (accessToken # None /\ tokenExpiry # None
                     /\ now > The(tokenExpiry) - 30000)
                    => calls'[c].pc = "getRefresh" /\ calls'[c].refreshCalls.pre = 1
               /\ (accessToken # None
                     /\ ~(tokenExpiry # None /\ now > The(tokenExpiry) - 30000))
                    => calls'[c].result = "true"]_vars
  /\ [][\A c \in Callers : Returns(c, "isAuthenticated") =>
          LET call == calls'[c] IN
            /\ call.refreshCalls.pre <= 1 /\ call.refreshCalls.post = 0
            /\ call.requests <= call.refreshCalls.pre
            /\ call.refreshOk.pre = "failed" => call.result = "false"
            /\ (call.refreshOk.pre = "failed" /\ ~call.overlapped) => StoreCleared'
            /\ call.refreshOk.pre = "ok" => call.result = "true"
            /\ call.result \in {"true", "false"}]_vars

\* C9 witness: a call that found the stored token expired asked the token
\* endpoint, was refused, and returned false with everything cleared.
RefreshRefusedAuthCleared ==
  \E c \in Callers :
    /\ calls[c].op = "isAuthenticated" /\ calls[c].pc = "done" /\ ~calls[c].overlapped
    /\ calls[c].hadToken /\ calls[c].requests = 1
    /\ calls[c].refreshOk.pre = "failed" /\ calls[c].result = "false"
    /\ StoreCleared /\ ~isLoggedIn

\* C10: on a 401 authenticatedFetch performs exactly one refresh; when it
\* succeeds the request is retried exactly once (with the token the refresh
\* issued, for a call that no other call overlapped) and the retry's response
\* returned whatever its status; when it fails UNAUTHORIZED is thrown without
\* a retry and, for a call that no other call overlapped, the auth state is
\* cleared on return.
UnauthorizedHandledOnce ==
  /\ [](\A c \in Callers : Len(calls[c].sent) <= 2 /\ calls[c].refreshCalls.post <= 1)
  /\ [][\A c \in Callers :
          (calls[c].pc = "getNewToken" /\ calls'[c].pc = "retry" /\ ~calls[c].overlapped)
            => calls'[c].sent[2] = Some(calls[c].reply.access_token)]_vars
  /\ [][\A c \in Callers :
          (Returns(c, "authenticatedFetch") /\ Len(calls'[c].statuses) > 0
             /\ calls'[c].statuses[1] = "401") =>
          LET call == calls'[c] IN
            /\ call.refreshCalls.post = 1
            /\ call.refreshOk.post \in {"ok", "failed"}
            /\ call.refreshOk.post = "ok" =>
                 /\ Len(call.sent) = 2 /\ Len(call.statuses) = 2
                 /\ call.result = call.statuses[2]
            /\ call.refreshOk.post = "failed" =>
                 /\ Len(call.sent) = 1 /\ call.result = "UNAUTHORIZED"
                 /\ ~call.overlapped => StoreCleared']_vars

\* C10 witness: the request was answered 401, the refresh succeeded, the
\* retry went out with the new token and its 401 was returned.
RetryAnswered401Returned ==
  \E c \in Callers :
    /\ calls[c].op = "authenticatedFetch" /\ calls[c].pc = "done" /\ ~calls[c].overlapped
    /\ calls[c].statuses = <<"401", "401">>
    /\ calls[c].sent = <<Some("A0"), Some(IssuedAccess(c))>>
    /\ calls[c].refreshCalls.post = 1 /\ calls[c].result = "401"
\* What the logged attempts met.
FileEverFound == \E i \in 1..Len(attemptLog) : attemptLog[i].reading.fileExists
CredentialsEverFound == \E i \in 1..Len(attemptLog) : attemptLog[i].reading.credentials
ProbedAttempts == {i \in 1..Len(attemptLog) : attemptLog[i].probe # None}
LastProbeError ==
  LET last == CHOOSE i \in ProbedAttempts : \A j \in ProbedAttempts : j <= i
  IN The(The(attemptLog[last].probe).error)

\* The observed call has returned the failure of an exhausted loop, which its
\* caller has reported.
LoopExhausted ==
  /\ runs["r1"].pc = "done" /\ runs["r1"].reports = <<"verifying", "failed">>
  /\ Len(attemptLog) > 0

LastAttemptError ==
  LET last == attemptLog[Len(attemptLog)] IN
    IF last.probe # None THEN The(The(last.probe).error)
    ELSE IF FileEverFound THEN <<"Config file found but InsForge credentials missing">>
    ELSE <<"Config file not found">>

LoopBoundedByMaxAttempts ==
  /\ Len(attemptLog) <= runs["r1"].maxAttempts
  /\ runs["r1"].pc = "sleep" => runs["r1"].attempt = Len(attemptLog) + 1
  /\ runs["r1"].pc = "probe" => runs["r1"].attempt = Len(attemptLog)
  /\ (~FileEverFound /\ Len(attemptLog) < runs["r1"].maxAttempts)
       => runs["r1"].pc = "sleep"
  /\ (~FileEverFound /\ runs["r1"].pc = "done") =>
       /\ Len(attemptLog) = runs["r1"].maxAttempts
       /\ ProbedAttempts = {}
       /\ runs["r1"].reports = <<"verifying", "failed">>
       /\ mcpStatus["P"].error =
            Some(<<"Config file not found at: path. The installer may have written to a different location.">>)

\* C12 witness: three attempts were allowed, none saw the file, and the call
\* has returned.
ThreeAttemptsFileNeverFound ==
  /\ runs["r1"].pc = "done" /\ runs["r1"].maxAttempts = 3
  /\ Len(attemptLog) = 3 /\ ~FileEverFound

\* The tools the caller reported as verified, in the suspended status write or
\* in the written entry.
ReportedTools ==
  {o.tools : o \in {x \in BagToSet(statusOps) : x.op = "markMcpVerified"}}
    \cup (IF mcpStatus["P"].status = "verified" THEN {mcpStatus["P"].tools} ELSE {})

\* C13: the first attempt whose probe succeeds with a tool list is the last
\* attempt: verifyFromConfig returns success with that probe's tools at once,
\* with no later sleep, config read or probe.
SuccessEndsLoop ==
  \A i \in ProbedAttempts :
    The(attemptLog[i].probe).success =>
      /\ i = Len(attemptLog)
      /\ \A j \in ProbedAttempts : j < i => ~The(attemptLog[j].probe).success
      /\ runs["r1"].pc = "done"
      /\ runs["r1"].reports = <<"verifying", "verified">>
      /\ ReportedTools = {The(attemptLog[i].probe).tools}

\* C13 witness: credentials first appear in attempt 3 of 5, the probe succeeds
\* with two tools, and the call has returned after three attempts.
SucceededOnThirdOfFive ==
  /\ runs["r1"].maxAttempts = 5 /\ Len(attemptLog) = 3
  /\ ~attemptLog[1].reading.credentials /\ ~attemptLog[2].reading.credentials
  /\ attemptLog[3].probe = Some(Success(<<"fetch-docs", "create-table">>))
  /\ runs["r1"].pc = "done"
ConnectionTimeout == Some(Failure(<<"Connection timeout">>))

\* C14: while the probe is unresolved its timeout stays armed; when it fires
\* with neither a tools result nor an error outcome so far, the probe resolves
\* with the 'Connection timeout' failure and the subprocess has been killed by
\* then (or has already exited); so a started probe always resolves.
TimeoutKillsAndResolves ==
  /\ []((probePc = "running" /\ ~resolved) => probeTimer = "armed")
  /\ [][(probeTimer = "armed" /\ probeTimer' = "fired" /\ ~resolved)
          => /\ probeResult' = ConnectionTimeout
             /\ process' = "killed" \/ exited]_vars
  /\ [](probeResult = ConnectionTimeout =>
          /\ probeTimer = "fired"
          /\ process = "killed" \/ exited)
  /\ (probePc = "running") ~> resolved

\* C14 witness: output arrived that was no response, the tools request went
\* out, the timeout fired, and the live process was killed.
TimedOutAndKilled ==
  /\ probeResult = ConnectionTimeout /\ process = "killed" /\ ~exited
  /\ chunksSeen >= 1 /\ Len(stdinWrites) = 2
\* C15: with each call run to completion before the next, markMcpVerified(Q)
\* turns a verified P (P # Q) into status none with its tools cleared, and on
\* completion Q is the only verified entry.
SequentialVerifiedDemotes ==
  /\ [](statusOps = EmptyBag => Cardinality(VerifiedProjects) <= 1)
  /\ [](\A p \in Projects : mcpStatus[p].status = "none" => mcpStatus[p].tools = None)
  /\ [][\A p, q \in Projects : \A t \in ToolLists :
          (p # q /\ mcpStatus[p].status = "verified" /\ markMcpVerified(q, t))
            => mcpStatus'[p] = [mcpStatus[p] EXCEPT !.status = "none", !.tools = None]]_vars
  /\ [][\A o \in BagToSet(statusOps) :
          markMcpVerifiedUpdate(o)
            => /\ VerifiedProjects' = {o.pid}
               /\ mcpStatus'[o.pid].tools = o.tools]_vars

\* C15 witness: both calls are complete; P, verified first, is none without
\* tools and Q is verified with its tools.
SecondVerifiedOnly ==
  /\ statusOps = EmptyBag
  /\ mcpStatus["P"] = [status |-> "none", tools |-> None, error |-> None]
  /\ mcpStatus["Q"].status = "verified" /\ mcpStatus["Q"].tools # None
\* C16: each mark operation is an atomic read-modify-write of the status map:
\* between an operation's first read and its last write (markMcpVerified
\* suspended after demoting the others, before writing its own entry) no step
\* other than its own writes the map.
MarkOperationsAtomic ==
  [][\A o \in BagToSet(statusOps) :
       (o.op = "markMcpVerified" /\ o.pc = "update")
         => mcpStatus' = mcpStatus \/ markMcpVerifiedUpdate(o)]_vars
\* C17: a status transition made by a flow for one project leaves every other
\* project's entry as it is, except that a verified report for P turns a
\* verified Q into none (tools cleared): an entry changes only by its own
\* project's flow, by its own suspended write, or by that demotion.
OtherProjectsUntouched ==
  [][\A q \in Projects : mcpStatus'[q] # mcpStatus[q] =>
       \/ \E r \in Runs : runs'[r] # runs[r] /\ runs'[r].pid = q
       \/ \E o \in BagToSet(statusOps) : o.pid = q /\ markMcpVerifiedUpdate(o)
       \/ /\ mcpStatus[q].status = "verified"
          /\ mcpStatus'[q] = [mcpStatus[q] EXCEPT !.status = "none", !.tools = None]
          /\ \E r \in Runs : /\ runs'[r].pid # q /\ runs'[r].reports # runs[r].reports
                             /\ runs'[r].reports = <<"verifying", "verified">>]_vars

\* C17 witness: flows for P and Q ran side by side; one ended verified, the
\* other failed, and both entries stand after the writes have settled.
BothProjectsKeepTheirEntries ==
  /\ runs["r1"].pid # runs["r2"].pid
  /\ runs["r1"].kind = "install" /\ runs["r2"].kind = "install"
  /\ runs["r1"].reports = <<"verifying", "verified">>
  /\ runs["r2"].reports = <<"verifying", "failed">>
  /\ statusOps = EmptyBag
  /\ mcpStatus[runs["r1"].pid].status = "verified"
  /\ mcpStatus[runs["r2"].pid].status = "failed"
Cancelled == InstallerResult(FALSE, None, Some(<<"Installation cancelled">>))

\* C18: a cancellation that fires while the installer is running (its handler
\* kills the process) resolves runInstaller with the 'Installation cancelled'
\* failure, which differs from the result of every close; installMcp reports
\* that error; and no later event changes a result once resolved.
CancelledResultStands ==
  /\ [][\A r \in Runs :
          (runs[r].installer = None /\ installerCancel(r))
            => runs'[r].installer = Some(Cancelled)]_vars
  /\ [][\A r \in Runs :
          runs[r].installer # None => runs'[r].installer = runs[r].installer]_vars
  /\ [][\A r \in Runs : \A code \in ExitCodes :
          installerClose(r, code) =>
            /\ runs[r].installer = None => runs'[r].installer # Some(Cancelled)
            /\ runs[r].installer = None => The(runs'[r].installer).error = None]_vars
  /\ [][\A r \in Runs :
          (runs[r].installer = Some(Cancelled) /\ installerResolved(r))
            => /\ runs'[r].reports = <<"verifying", "failed">>
               /\ mcpStatus'[runs[r].pid].error = Some(<<"Installation cancelled">>)]_vars

\* C18 witness: the cancellation came first, the killed process's close event
\* (no exit code) followed, and the result is still the cancelled one.
CloseAfterCancelIgnored ==
  \E r \in Runs :
    /\ runs[r].pc = "installer" /\ runs[r].events = {"cancel", "close"}
    /\ runs[r].installer = Some(Cancelled)

\* A token exchange that failed: fetch threw, the response was not OK, or
\* the body carries an `error`.
ExchangeFailed(reply) == reply.kind # "json" \/ reply.error # None

\* C19: a failed token exchange stores no access token, refresh token,
\* expiry or profile, emits no auth-changed event, starts no further
\* exchange, ends its handler, closes the listener and leaves the callback
\* promise settled (rejected if it was pending); and a login attempt whose
\* one exchange failed has stored nothing, emitted nothing and returns false.
ExchangeFailureAborts ==
  /\ [][\A h \in BagToSet(handlers), r \in TokenReplies("A1", "R1") :
          (ExchangeFailed(r) /\ exchangeCodeForTokens(h, r))
            => /\ <<accessToken, refreshToken, tokenExpiry, userData, isLoggedIn>>'
                    = <<accessToken, refreshToken, tokenExpiry, userData, isLoggedIn>>
               /\ authEvents' = authEvents
               /\ exchangeCalls' = exchangeCalls
               /\ BagCardinality(handlers') = BagCardinality(handlers) - 1
               /\ server' # "listening"
               /\ promise' # "pending"
               /\ (promise = "pending" => promise' = "rejected")]_vars
  /\ []((exchangeCalls = 1 /\ handlers = EmptyBag /\ accessToken = None)
          => /\ refreshToken = None /\ tokenExpiry = None /\ userData = None
             /\ ~isLoggedIn /\ authEvents = <<>>
             /\ promise \in {"rejected", "null"}
             /\ (loginPc = "returned" => loginResult = Some(FALSE)))

\* C19 witness: the one exchange of a login attempt failed, the promise was
\* rejected and login() has returned false with nothing stored.
FailedExchangeLoginReturnedFalse ==
  /\ exchangeCalls = 1 /\ handlers = EmptyBag /\ accessToken = None
  /\ promise = "rejected" /\ loginPc = "returned" /\ loginResult = Some(FALSE)
  /\ authEvents = <<>> /\ tokenExpiry = None

\* C20: within a login attempt the listener accepts requests only once the
\* listen callback has called openExternal with the authorization URL: every
\* handled request, every suspended handler and every exchange comes after
\* the browser-open, and the step that handles a request changes nothing
\* about it.
CallbackAfterBrowserOpen ==
  /\ []((server = "listening" \/ callbacksSeen > 0 \/ handlers # EmptyBag
           \/ exchangeCalls > 0) => browserOpened)
  /\ [][\A req \in Requests : handleRequest(req) => (browserOpened /\ browserOpened')]_vars

\* C20 witness: a matching callback was handled, and its exchange started,
\* after the browser was opened.
CallbackHandledAfterOpen ==
  browserOpened /\ callbacksSeen = 1 /\ exchangeCalls = 1 /\ ~mismatchSeen

\* C21: the step that completes logout() leaves no access token, no refresh
\* token, no expiry timestamp and no profile stored.
LogoutClearsTokenSet ==
  [][(logoutPc # "done" /\ logoutPc' = "done")
       => (accessToken' = None /\ refreshToken' = None /\ tokenExpiry' = None
           /\ userData' = None)]_vars

\* C25: whenever the session is logged out (logout() or clearAuth has
\* completed; the model has no login after it) the current organization and
\* the current project are null, a project selection in flight across the
\* logout included.
PointersNullWhenLoggedOut ==
  ~isLoggedIn => (currentOrg = None /\ currentProject = None)

\* C22: when refreshAccessToken returns true to a call that no other call
\* overlapped, the stored access token is the one of the response, the
\* stored refresh token is the response's when it has one and else the one
\* the session held (R0), and the stored expiry no longer counts as expired.
RefreshUpdatesTokenSet ==
  [][\A c \in Callers :
       (/\ calls[c].pc \in {"storedAccess", "storedRefresh", "storedExpiry"}
        /\ calls'[c].refreshOk # calls[c].refreshOk
        /\ ~calls[c].overlapped)
         => /\ accessToken' = Some(calls[c].reply.access_token)
            /\ refreshToken' = IF calls[c].reply.refresh_token # None
                                 THEN calls[c].reply.refresh_token ELSE Some("R0")
            /\ ~isTokenExpired']_vars

\* C23: when a callback handler sets the logged-in flag and fires
\* auth-changed(true), the access token of its exchange, the refresh token
\* the exchange supplied, an expiry and the profile are already stored; in
\* an attempt with one exchange the expiry is now + expires_in seconds
\* (3600 s without expires_in) and the flag was not set before; the step
\* appends true to the events; and login() has returned true only after
\* such an event, with everything stored.
PersistedBeforeLoggedIn ==
  /\ [][\A h \in BagToSet(handlers) :
          finishCallback(h)
            => /\ accessToken = Some(h.reply.access_token)
               /\ (h.reply.refresh_token # None => refreshToken = h.reply.refresh_token)
               /\ tokenExpiry # None /\ userData # None
               /\ (exchangeCalls = 1 =>
                     /\ tokenExpiry =
                          Some(now + 1000 * (IF h.reply.expires_in = None
                                               THEN DefaultExpiresIn
                                               ELSE The(h.reply.expires_in)))
                     /\ ~isLoggedIn /\ authEvents = <<>>)
               /\ isLoggedIn' /\ authEvents' = Append(authEvents, TRUE)]_vars
  /\ [](isLoggedIn => (accessToken # None /\ tokenExpiry # None /\ userData # None))
  /\ [](loginResult = Some(TRUE)
          => (authEvents # <<>> /\ authEvents[1] = TRUE /\ isLoggedIn /\ promise = "user"))

\* C23 witness: the one exchange of the attempt supplied a refresh token and
\* no expires_in, and login() has returned true.
LoginSucceededWithDefaultExpiry ==
  /\ loginResult = Some(TRUE) /\ exchangeCalls = 1 /\ authEvents = <<TRUE>>
  /\ refreshToken = Some("R1") /\ tokenExpiry = Some(now + DefaultExpiresIn * 1000)
  /\ userData # None /\ isLoggedIn

\* C30: a login() call that has returned false has left the token store as
\* it was before the call (empty): no access token, refresh token, expiry
\* or profile of the attempt is stored, then or later, and the logged-in
\* flag is not set.
FailedLoginLeavesStore ==
  loginResult = Some(FALSE)
    => (accessToken = None /\ refreshToken = None /\ tokenExpiry = None
        /\ userData = None /\ ~isLoggedIn)

\* The project ids that have an entry in the status map.
Entries == {p \in Projects : mcpStatus[p].status # "absent"}

\* C24: every step other than the first segment of clearAllState keeps all
\* the project ids that have an entry in the status map (entries are
\* created, overwritten or reset to none), and clearAllState removes them
\* all.
EntriesNeverShrink ==
  [][IF clearAllState THEN Entries' = {} ELSE Entries \subseteq Entries']_vars

\* C24 witness: P was verified and has been demoted by the verification of
\* Q; its entry is still in the map with status none.
DemotedEntryKept ==
  /\ mcpStatus["P"].status = "none" /\ mcpStatus["Q"].status = "verified"
  /\ Entries = {"P", "Q"}

\* C26: a run whose client is codex never sleeps, reads a config file or
\* probes; the step in which its verifyFromConfig is called reports verified
\* with the placeholder tool list, and does so whatever maxAttempts is
\* passed.
CodexExemptFromVerification ==
  /\ [](\A r \in Runs : runs[r].client = Some("codex") =>
          /\ runs[r].pc \notin {"sleep", "probe"}
          /\ ~runs[r].probed /\ runs[r].attempt = 0
          /\ (runs[r].verifies > 0 =>
                /\ runs[r].pc = "done" /\ runs[r].verifies = 1
                /\ runs[r].reports = <<"verifying", "verified">>))
  /\ [][\A r \in Runs :
          (runs[r].client = Some("codex") /\ runs[r].verifies = 0
             /\ runs'[r].verifies = 1)
            => /\ [op |-> "markMcpVerified", pid |-> runs[r].pid,
                   tools |-> Some(CodexTools), pc |-> "update"] \in BagToSet(statusOps')
               /\ (runs[r].kind = "install" =>
                     \A n \in 0..DefaultMaxAttempts : verifyFromConfig(r, runs[r], n))]_vars

\* C26 witness: an install for codex and a retry for codex have both been
\* verified with the placeholder tool list and without a probe.
CodexVerifiedWithPlaceholder ==
  /\ \E r, q \in Runs :
       /\ runs[r].kind = "install" /\ runs[q].kind = "retry"
       /\ \A x \in {r, q} :
            /\ runs[x].client = Some("codex") /\ ~runs[x].probed
            /\ runs[x].reports = <<"verifying", "verified">>
  /\ \E p \in Projects : mcpStatus[p] = [status |-> "verified", tools |-> Some(CodexTools),
                                         error |-> None]

\* The lines that are a tools/list response, and those that are an error
\* envelope.
ToolsLines == {<<"T">>, <<"ta", "tb">>}
ErrorLines == {<<"X">>, <<"X0">>}

IndicatorTexts == {<<"E", "R", "R", "O", "R">>, <<" ", "f", "a", "i", "l", "e", "d">>}

\* C28: a stderr chunk that contains 'error' or 'failed' in any case
\* resolves a pending probe as failure with that text (trimmed) and kills
\* the running process; a stderr chunk without those words changes neither
\* the flag, the result nor the process; and no later event, a valid tools
\* response included, changes the result.
StderrIndicatorFailsProbe ==
  /\ [][\A text \in StderrTexts :
          stderrData(text)
            => IF text \in IndicatorTexts /\ ~resolved
                 THEN /\ resolved'
                      /\ probeResult' = Some(Failure(IF text = <<"E", "R", "R", "O", "R">>
                                                       THEN text
                                                       ELSE <<"f", "a", "i", "l", "e", "d">>))
                      /\ (process = "spawned" /\ ~exited) => process' = "killed"
                 ELSE <<resolved, probeResult, process, probeTimer>>'
                        = <<resolved, probeResult, process, probeTimer>>]_vars
  /\ [][(probeResult # None /\ The(probeResult).error # None
           /\ The(The(probeResult).error) \in {trim(t) : t \in IndicatorTexts})
          => probeResult' = probeResult]_vars

\* C28 witness: stderr text 'ERROR' failed the probe and killed the process,
\* and the tools response that arrived afterwards did not change the result.
ToolsAfterStderrFailure ==
  /\ probeResult = Some(Failure(<<"E", "R", "R", "O", "R">>))
  /\ process = "killed" /\ buffer = <<"T", "\n">> /\ resolveCalls = 1

\* C29: when authenticatedFetch has thrown UNAUTHORIZED to a caller that no
\* other call overlapped, the auth state is cleared: access token, refresh
\* token, profile and expiry are absent, the logged-in flag is reset and
\* the last auth-changed event, if the session fired one, was false.
UnauthorizedMeansCleared ==
  \A c \in Callers :
    (calls[c].op = "authenticatedFetch" /\ calls[c].pc = "done"
       /\ calls[c].result = "UNAUTHORIZED" /\ ~calls[c].overlapped
       /\ \A d \in Callers : ~InFlight(d) /\ ~calls[d].overlapped)
      => /\ accessToken = None /\ refreshToken = None
         /\ userData = None /\ tokenExpiry = None /\ ~isLoggedIn
         /\ (authEvents # <<>> => authEvents[Len(authEvents)] = FALSE)

\* C31: a retry of the verification requested from the projects view (a
\* retryVerification call that is given no client id) re-runs the
\* config-based verification: when it has ended, verifyFromConfig was called
\* and the run did not report failed without an attempt.
ViewRetryReverifies ==
  \A r \in Runs :
    (runs[r].kind = "retry" /\ runs[r].client = None /\ runs[r].pc = "done")
      => (runs[r].verifies > 0 /\ runs[r].reports # <<"verifying", "failed">>)

\* C32: in verifyFromConfig the credentials flag implies the file flag after
\* every attempt, also when the file is written between the existence check
\* and the credential read; and an exhausted run in which some attempt
\* extracted credentials does not end with the 'config file not found'
\* failure.
CredentialsImplyFileFound ==
  /\ runs["r1"].credentialsFound => runs["r1"].configFileFound
  /\ (LoopExhausted /\ CredentialsEverFound) =>
       mcpStatus["P"].error #
         Some(<<"Config file not found at: path. The installer may have written to a different location.">>)

\* Caller c's refresh has received a successful response and is storing it.
RefreshSucceeded(c) == calls[c].pc \in {"storedAccess", "storedRefresh", "storedExpiry"}

\* C33: when two refreshes run concurrently and one of them has received a
\* successful response, the end of the other one does not clear the auth
\* state: the access token of the successful response stays stored and the
\* other call does not enter clearAuth.
ConcurrentRefreshKeepsTokens ==
  [][\A c, d \in Callers :
       (c # d /\ calls[c].pc = "refreshFetch" /\ RefreshSucceeded(d)
          /\ calls'[c] # calls[c])
         => /\ accessToken' # None
            /\ calls'[c].pc \notin {"clearAccess", "clearRefresh", "clearUser", "clearExpiry"}]_vars

\* C34: the real-connected flag follows the verified project: a step that
\* takes the status verified away from the project that had it while the
\* flag was true (a demotion, a failure, a new verification, a removal) does
\* not leave the flag true.
RealConnectedFollowsVerified ==
  [][(realConnected /\ VerifiedProjects # {} /\ VerifiedProjects' # VerifiedProjects)
       => ~realConnected']_vars

\* C35: in every status map an entry has a tool list only when its status is
\* verified and an error message only when its status is failed; getMcpTools
\* returns nothing for a project that is demoted, verifying or failed.
ToolsOnlyVerifiedErrorOnlyFailed ==
  \A p \in Projects :
    /\ mcpStatus[p].tools # None => mcpStatus[p].status = "verified"
    /\ mcpStatus[p].error # None => mcpStatus[p].status = "failed"
    /\ getMcpStatus(p) \in {"none", "verifying", "failed"} => getMcpTools(p) = None

\* One project demoted by the verification of the other, which has its tools.
DemotedWithoutTools ==
  /\ mcpStatus["Q"].status = "none" /\ getMcpTools("Q") = None
  /\ mcpStatus["P"].status = "verified" /\ getMcpTools("P") # None

\* C36: an exit with a non-zero or null code while the probe is pending
\* resolves it at once with the 'Process exited with code' failure; an exit
\* with code 0 while it is pending leaves it pending with the timeout armed,
\* and if no output arrives afterwards it is the timeout that resolves it,
\* with 'Connection timeout'; after an exit the probe eventually resolves.
ExitResolvesOrTimeoutDoes ==
  /\ [][\A code \in ExitCodes :
          (processExit(code) /\ ~resolved) =>
            IF code # 0
              THEN probeResult' = Some(Failure(<<"Process exited with code", code>>))
              ELSE ~resolved' /\ probeResult' = None /\ probeTimer' = "armed"]_vars
  /\ [][(exited /\ ~resolved /\ resolved' /\ chunksSeen' = chunksSeen)
          => probeResult' = ConnectionTimeout]_vars
  /\ exited ~> resolved

\* C36 witness: the process exited with code 0 without a response, nothing
\* arrived afterwards, and the timeout resolved the probe with nothing left
\* to kill.
ExitedCleanThenTimedOut ==
  /\ exited /\ process = "spawned" /\ chunksSeen = 0
  /\ probeResult = ConnectionTimeout /\ probeTimer = "fired"

\* The listeners of project p that hold a socket (connecting or connected).
LiveListeners(p) ==
  {l \in DOMAIN listeners : listeners[l].projectId = p /\ listeners[l].socket # "null"}

\* C37: each listener calls onMcpEvent at most once; a listener that has
\* received its first event is disconnected and no longer in the registry;
\* starting a listener for a project disconnects the one registered for it
\* before; so each project has at most one listener with a socket, and that
\* one is the registered one.
OneEventOneListener ==
  /\ [](\A l \in DOMAIN listeners :
          /\ listeners[l].onMcpEventCalls <= 1
          /\ listeners[l].hasReceivedEvent =>
               /\ listeners[l].onMcpEventCalls = 1
               /\ listeners[l].socket = "null"
               /\ activeListeners[listeners[l].projectId] # Some(l))
  /\ [](\A p \in Projects :
          /\ Cardinality(LiveListeners(p)) <= 1
          /\ \A l \in LiveListeners(p) : activeListeners[p] = Some(l))
  /\ [][\A p \in Projects :
          (activeListeners[p] # None /\ activeListeners'[p] # activeListeners[p])
            => listeners'[The(activeListeners[p])].socket = "null"]_vars

\* C37 witness: the first listener of P was replaced by a second one, which
\* connected, received an event and confirmed the connection; a third one
\* is now connected for P.
ReplacedListenerConfirmed ==
  /\ Len(listeners) = 3 /\ \A l \in 1..3 : listeners[l].projectId = "P"
  /\ ~listeners[1].hasReceivedEvent /\ listeners[1].socket = "null"
  /\ listeners[2].hasReceivedEvent /\ listeners[2].onMcpEventCalls = 1
  /\ listeners[3].socket = "connected" /\ activeListeners["P"] = Some(3)
  /\ realConnected

====
